---- MODULE Spec2Model ----
(***************************************************************************)
(* Model of the cleanify waste-collection backend: the simulation engine   *)
(* (SimulationService), the Truck / Bin / Depot entities, the optimization *)
(* coordinator with its knapsack allocator, and the REST commands that     *)
(* mutate the same entities from other threads.                            *)
(*                                                                         *)
(* Quantities are integers.  Positions lie on a line and are measured in   *)
(* grid units; the arrival tolerance (0.01 km in the code) is one unit, so *)
(* "distance < tolerance" means "same grid point".  Fill levels and fuel   *)
(* are percentages, loads are kilograms, times are simulated minutes.      *)
(***************************************************************************)
EXTENDS Integers, Sequences, FiniteSets, TLC

\* ------------------------------------------------------------------ fleet
Trucks == {"t1", "t2"}
TruckOrder == <<"t1", "t2">>
BinIds == {"b1", "b2"}
BinOrder == <<"b1", "b2">>

TruckCapacity == [t \in Trucks |-> IF t = "t1" THEN 180 ELSE 100]
TruckSpeed == 2
FuelConsumption == 0
DepotLocation == 0
DepotCapacity == 180
ProcessingRate == 180

BinCapacity == [b \in BinIds |-> 100]
BinLocation == [b \in BinIds |-> IF b = "b1" THEN 5 ELSE 15]
BinType == [b \in BinIds |-> IF b = "b1" THEN "hazardous" ELSE "general"]
BinPriority == [b \in BinIds |-> 1]
FillRate == 15

\* ----------------------------------------------------------------- bounds
MaxDelta == 1
MaxTraffic == 2
MaxDisturbances == 1
InitFillChoices == {60}
InitFuelChoices == {100, 5}

\* ------------------------------------------------------------ configuration
MaintenanceDuration == 1
AutoOptInterval == 1
UrgentBinThreshold == 90
ArrivalEps == 1
RoutePrecision == 1
MovementBoost == 5
LowFuel == 10

NoStart == -1
NoBin == "none"
NoCall == [op |-> "none"]

VARIABLES
    trucks,                  \* truck id -> Truck record
    bins,                    \* bin id -> Bin record
    depot,                   \* the depot: current_load, status
    truck_routes_geometry,   \* truck id -> polyline (<<>> when there is no entry)
    truck_maintenance_start, \* truck id -> minutes since the recorded start, or NoStart
    since_auto_opt,          \* sim_now - last_auto_optimization, saturating
    urgent_bins_last_check,  \* ids of the urgent bins at the last optimization
    last_delta,              \* TimeManager._last_delta * speed, in minutes
    tick_traffic,            \* traffic multiplier read by the movement step
    pc,                      \* position of the engine thread inside _step
    requests,                \* number of REST / scheduler requests served so far
    faults,                  \* number of random failures drawn so far
    move_i,                  \* index of the truck the movement loop is at
    knapsack,                \* the most recent direct call of the knapsack solver
    held_next_bin_id,        \* the handler's local next_bin_id between its read and its writes
    maintenance_elapsed,     \* truck id -> simulated minutes in maintenance so far, or NoStart
    time_manager,            \* the TimeManager: speed, is_paused, _sim_time, _real_last
    perf_counter,            \* time.perf_counter(), the wall clock
    clock_call,              \* the most recent TimeManager call and the instants now() returned
    traffic_service,         \* the TrafficService: mode, manual_mult, auto multiplier, events
    traffic_call,            \* the most recent TrafficService call and what it returned
    threshold_service,       \* the ThresholdService: mode and static thresholds
    threshold_call,          \* the most recent threshold_for call and what it returned
    collection_jobs,         \* the scheduler's job store "collections"
    last_event               \* the event logged by the most recent step

vars == <<trucks, bins, depot, truck_routes_geometry, truck_maintenance_start,
          since_auto_opt, urgent_bins_last_check, last_delta, tick_traffic,
          pc, requests, faults, move_i, held_next_bin_id, knapsack, maintenance_elapsed,
          time_manager, perf_counter, clock_call, traffic_service, traffic_call,
          threshold_service, threshold_call, collection_jobs, last_event>>

\* the services that are also exercised by themselves, apart from the engine
services ==
    <<time_manager, perf_counter, clock_call, traffic_service, traffic_call,
      threshold_service, threshold_call, collection_jobs>>

\* ---------------------------------------------------------------- helpers
Min(a, b) == IF a < b THEN a ELSE b
Max(a, b) == IF a > b THEN a ELSE b
Abs(a) == IF a < 0 THEN -a ELSE a
Distance(a, b) == Abs(a - b)

NoEvent == [type |-> "none", truck_id |-> "none", bin_id |-> "none", amount |-> 0]
Event(ty, t, b, n) == [type |-> ty, truck_id |-> t, bin_id |-> b, amount |-> n]

\* list.remove(x): drops the first occurrence of x
RECURSIVE RemoveFirst(_, _)
RemoveFirst(s, x) ==
    IF s = <<>> THEN <<>>
    ELSE IF Head(s) = x THEN Tail(s)
    ELSE <<Head(s)>> \o RemoveFirst(Tail(s), x)

InSeq(s, x) == \E i \in 1..Len(s) : s[i] = x

\* ------------------------------------------------------------------ Truck
\* A truck record: status, location, load, fuel_level, route (bin ids) and
\* current_route_index (0-based, as in the code).
needs_maintenance(t) == t.status = "maintenance" \/ t.fuel_level < LowFuel

\* availability judged on fuel alone, whatever the truck is doing
is_available_any_status(t) == ~needs_maintenance(t)

is_available(t) == t.status \in {"idle", "en_route"} /\ ~needs_maintenance(t)

is_full(t, cap) == t.load * 100 >= cap * 95

\* load <= 0.01 kg; loads are whole kilograms here
is_empty(t) == t.load <= 0

\* the capacity comparison left out
can_collect_bin_unchecked(t, cap, bin_load) ==
    t.status \in {"idle", "en_route"} /\ ~needs_maintenance(t)

can_collect_bin(t, cap, bin_load) == t.load + bin_load <= cap /\ is_available(t)

collect_bin(t, cap, bin_id, bin_load) ==
    IF ~can_collect_bin(t, cap, bin_load) THEN t
    ELSE LET r == IF InSeq(t.route, bin_id) THEN RemoveFirst(t.route, bin_id) ELSE t.route
             i == IF InSeq(t.route, bin_id) /\ t.current_route_index >= Len(r)
                  THEN Max(0, Len(r) - 1)
                  ELSE t.current_route_index
         IN [t EXCEPT !.load = t.load + bin_load,
                      !.status = "collecting",
                      !.route = r,
                      !.current_route_index = i]

empty_load(t) ==
    [t EXCEPT !.load = 0, !.status = "idle", !.location = DepotLocation]

\* a variant that marks a truck with a route as busy collecting
assign_route_collecting(t, bin_ids) ==
    [t EXCEPT !.route = bin_ids,
              !.current_route_index = 0,
              !.status = IF bin_ids # <<>> THEN "collecting" ELSE "idle"]

assign_route(t, bin_ids) ==
    [t EXCEPT !.route = bin_ids,
              !.current_route_index = 0,
              !.status = IF bin_ids # <<>> THEN "en_route" ELSE "idle"]

get_next_destination(t) ==
    IF t.current_route_index < Len(t.route)
    THEN t.route[t.current_route_index + 1]
    ELSE NoBin

\* the cursor incremented without comparing it with the route length
advance_route_unguarded(t) ==
    LET i == t.current_route_index + 1
    IN [t EXCEPT !.current_route_index = i,
                 !.status = IF i >= Len(t.route)
                            THEN (IF ~is_empty(t) THEN "returning" ELSE "idle")
                            ELSE t.status]

\* the cursor left where it is
advance_route_stuck(t) == t

advance_route(t) ==
    IF t.current_route_index < Len(t.route)
    THEN LET i == t.current_route_index + 1
         IN [t EXCEPT !.current_route_index = i,
                      !.status = IF i >= Len(t.route)
                                 THEN (IF ~is_empty(t) THEN "returning" ELSE "idle")
                                 ELSE t.status]
    ELSE t

\* move_towards returns the moved truck and whether the destination was reached
move_towards(t, destination, time_delta, traffic) ==
    IF t.status \in {"offline", "maintenance"} THEN [truck |-> t, reached |-> FALSE]
    ELSE LET distance_to_dest == Distance(t.location, destination)
             base == (TruckSpeed * time_delta) \div traffic
             max_distance == base * MovementBoost
             actual_distance == Min(base, distance_to_dest)
             fuel == Max(0, t.fuel_level - actual_distance * FuelConsumption)
             dir == IF destination >= t.location THEN 1 ELSE -1
         IN IF distance_to_dest < ArrivalEps THEN [truck |-> t, reached |-> TRUE]
            ELSE IF max_distance >= distance_to_dest
                 THEN [truck |-> [t EXCEPT !.fuel_level = fuel, !.location = destination],
                       reached |-> TRUE]
                 ELSE [truck |-> [t EXCEPT !.fuel_level = fuel,
                                           !.location = t.location + dir * max_distance],
                       reached |-> FALSE]

perform_maintenance(t) == [t EXCEPT !.status = "maintenance", !.fuel_level = 100]

complete_maintenance(t) ==
    IF t.status = "maintenance"
    THEN [t EXCEPT !.status = "idle", !.location = DepotLocation]
    ELSE t

set_offline(t, offline) == [t EXCEPT !.status = IF offline THEN "offline" ELSE "idle"]

\* -------------------------------------------------------------------- Bin
\* A bin record: fill_level and status.
bin_load_of(b, bn) == (bn.fill_level * BinCapacity[b]) \div 100

bin_collect(bn) ==
    IF bn.status # "active" THEN bn
    ELSE [bn EXCEPT !.fill_level = 0, !.status = "collected"]

\* the fill level increased without the cap at 100
update_fill_level_uncapped(b, bn, minutes_passed) ==
    IF bn.status # "active" THEN bn
    ELSE LET f == bn.fill_level + (FillRate * minutes_passed * 100) \div BinCapacity[b]
         IN [bn EXCEPT !.fill_level = f,
                       !.status = IF f >= 100 THEN "full" ELSE bn.status]

update_fill_level(b, bn, minutes_passed) ==
    IF bn.status # "active" THEN bn
    ELSE LET fill_increase == (FillRate * minutes_passed * 100) \div BinCapacity[b]
             f == Min(100, bn.fill_level + fill_increase)
         IN [bn EXCEPT !.fill_level = f,
                       !.status = IF f >= 100 THEN "full" ELSE bn.status]

reset_status(bn) ==
    IF bn.status = "collected" THEN [bn EXCEPT !.status = "active"] ELSE bn

\* ThresholdService in its default static mode: a constant per waste type
threshold_for(b) ==
    IF BinType[b] = "general" THEN 80
    ELSE IF BinType[b] = "recyclable" THEN 85
    ELSE 70

\* ------------------------------------------------------------------ Depot
\* A depot record: current_load and status.  Operating hours are compared
\* with a clock hour; `open` says whether that hour lies inside them.
is_operational(d, open) == d.status = "active" /\ open

\* the capacity comparison left out
can_accept_waste_unchecked(d, open, amount) == d.status = "active" /\ open

can_accept_waste(d, open, amount) ==
    is_operational(d, open) /\ d.current_load + amount <= DepotCapacity

\* the delivered amount not added to the stored load
receive_waste_dropped(d, open, amount) == d

receive_waste(d, open, amount) ==
    IF ~can_accept_waste(d, open, amount) THEN d
    ELSE LET l == d.current_load + amount
         IN [d EXCEPT !.current_load = l,
                      !.status = IF l * 100 >= DepotCapacity * 95 THEN "full" ELSE d.status]

process_waste(d, open, time_delta) ==
    IF ~is_operational(d, open) \/ d.current_load <= 0 THEN d
    ELSE LET max_processing == ProcessingRate * time_delta
             actual_processing == Min(max_processing, d.current_load)
             l == d.current_load - actual_processing
         IN [d EXCEPT !.current_load = l,
                      !.status = IF d.status = "full" /\ l * 100 < DepotCapacity * 90
                                 THEN "active" ELSE d.status]

empty_depot(d) ==
    [d EXCEPT !.current_load = 0,
              !.status = IF d.status = "full" THEN "active" ELSE d.status]

\* --------------------------------------------------------------- knapsack
\* Urgency of a bin, 200 times the code's value so that the factors 1.5,
\* the type multipliers 2.0 / 1.0 / 0.8 and 0.5 + 0.5 * priority are integers.
calculate_bin_urgency(b, bn) ==
    bn.fill_level
    * (IF bn.fill_level >= threshold_for(b) THEN 15 ELSE 10)
    * (IF BinType[b] = "hazardous" THEN 20 ELSE IF BinType[b] = "general" THEN 8 ELSE 10)
    * (1 + BinPriority[b])

KnapsackItem(b, bn) ==
    [id |-> b, weight |-> bin_load_of(b, bn) * 100, value |-> calculate_bin_urgency(b, bn)]

\* value_density(x) > value_density(y), with value / max(0.01, weight)
\* compared by cross-multiplication; the solver's weights and capacities
\* are in hundredths of a kilogram
Denser(x, y) ==
    x.value * Max(1, y.weight) > y.value * Max(1, x.weight)

\* sorted(items, key = value_density, reverse = True): stable
RECURSIVE InsertByDensity(_, _)
InsertByDensity(s, x) ==
    IF s = <<>> THEN <<x>>
    ELSE IF Denser(x, Head(s)) THEN <<x>> \o s
    ELSE <<Head(s)>> \o InsertByDensity(Tail(s), x)

RECURSIVE SortByDensity(_)
SortByDensity(items) ==
    IF items = <<>> THEN <<>>
    ELSE InsertByDensity(SortByDensity(SubSeq(items, 1, Len(items) - 1)), items[Len(items)])

RECURSIVE GreedyPick(_, _, _)
GreedyPick(sorted, capacity, total_weight) ==
    IF sorted = <<>> THEN <<>>
    ELSE IF total_weight + Head(sorted).weight <= capacity
         THEN <<Head(sorted).id>>
              \o GreedyPick(Tail(sorted), capacity, total_weight + Head(sorted).weight)
         ELSE GreedyPick(Tail(sorted), capacity, total_weight)

solve_greedy(capacity, items) == GreedyPick(SortByDensity(items), capacity, 0)

\* KnapsackSolver.solve with algorithm = "greedy": the selected item ids
solve(capacity, items) ==
    IF items = <<>> \/ capacity <= 0 THEN <<>>
    ELSE LET valid_items == SelectSeq(items, LAMBDA it : it.weight <= capacity)
         IN IF valid_items = <<>> THEN <<>> ELSE solve_greedy(capacity, valid_items)

\* sorted(range(n), key = capacity, reverse = True): stable, largest first
RECURSIVE InsertByCapacity(_, _)
InsertByCapacity(s, x) ==
    IF s = <<>> THEN <<x>>
    ELSE IF x.capacity > Head(s).capacity THEN <<x>> \o s
    ELSE <<Head(s)>> \o InsertByCapacity(Tail(s), x)

RECURSIVE SortByCapacity(_)
SortByCapacity(cs) ==
    IF cs = <<>> THEN <<>>
    ELSE InsertByCapacity(SortByCapacity(SubSeq(cs, 1, Len(cs) - 1)), cs[Len(cs)])

\* a variant of the allocation loop that leaves the selected items in the pool
RECURSIVE AllocateInOrder_shared_pool(_, _)
AllocateInOrder_shared_pool(order, remaining_items) ==
    IF order = <<>> THEN <<>>
    ELSE <<[truck_id |-> Head(order).truck_id,
            selected_ids |-> solve(Head(order).capacity, remaining_items)]>>
         \o AllocateInOrder_shared_pool(Tail(order), remaining_items)

\* solve_multiple_trucks: `order` holds the trucks still to serve, largest
\* capacity first; the result maps each served truck to its selected ids
RECURSIVE AllocateInOrder(_, _)
AllocateInOrder(order, remaining_items) ==
    IF order = <<>> THEN <<>>
    ELSE LET selected_ids == solve(Head(order).capacity, remaining_items)
             rest == SelectSeq(remaining_items, LAMBDA it : ~InSeq(selected_ids, it.id))
         IN <<[truck_id |-> Head(order).truck_id, selected_ids |-> selected_ids]>>
            \o AllocateInOrder(Tail(order), rest)

solve_multiple_trucks(truck_capacities, items) ==
    AllocateInOrder(SortByCapacity(truck_capacities), items)

\* optimize_multi_truck_allocation over the truck ids `truck_list` and the
\* bin ids `bin_list`: a sequence of [truck_id, selected_ids]
optimize_multi_truck_allocation(trs, bns, truck_list, bin_list) ==
    LET usable == SelectSeq(truck_list, LAMBDA t :
                      TruckCapacity[t] - trs[t].load > 0 /\ is_available(trs[t]))
        truck_capacities == [i \in 1..Len(usable) |->
                      [truck_id |-> usable[i],
                       capacity |-> (TruckCapacity[usable[i]] - trs[usable[i]].load) * 100]]
        items == [i \in 1..Len(bin_list) |-> KnapsackItem(bin_list[i], bns[bin_list[i]])]
    IN IF truck_capacities = <<>> THEN <<>>
       ELSE solve_multiple_trucks(truck_capacities, items)

\* ------------------------------------------------------ route sequencing
\* The road polyline the route query returns when it answers: every grid
\* point of the road from each stop to the next
RoadStep == 5

RECURSIVE RoadBetween(_, _)
RoadBetween(a, b) ==
    IF Distance(a, b) <= RoadStep THEN <<b>>
    ELSE LET n == IF b > a THEN a + RoadStep ELSE a - RoadStep
         IN <<n>> \o RoadBetween(n, b)

RECURSIVE RoadThrough(_)
RoadThrough(coordinates) ==
    IF Len(coordinates) <= 1 THEN coordinates
    ELSE <<coordinates[1]>>
         \o RoadBetween(coordinates[1], coordinates[2])
         \o Tail(RoadThrough(Tail(coordinates)))

\* the length of a polyline, in position units
RECURSIVE PathLength(_)
PathLength(points) ==
    IF Len(points) <= 1 THEN 0
    ELSE Distance(points[1], points[2]) + PathLength(Tail(points))

\* what the route query reports for a road polyline: kilometres and minutes
KmPerUnit == 4
MinutesPerKm == 3
RoadKm(points) == PathLength(points) * KmPerUnit
RoadMinutes(points) == RoadKm(points) * MinutesPerKm

\* depot -> bins -> depot
RouteCoordinates(assigned_bins) ==
    <<DepotLocation>>
    \o [i \in 1..Len(assigned_bins) |-> BinLocation[assigned_bins[i]]]
    \o <<DepotLocation>>

\* a variant without the straight-line fallback: when the route query fails
\* the result carries no geometry, as in the outer exception handler
optimize_truck_route_no_fallback(assigned_bins, osrm_ok) ==
    [optimized_bin_ids |-> assigned_bins,
     total_distance |-> IF assigned_bins # <<>> /\ osrm_ok
                        THEN RoadKm(RoadThrough(RouteCoordinates(assigned_bins))) ELSE 0,
     total_duration |-> IF assigned_bins # <<>> /\ osrm_ok
                        THEN RoadMinutes(RoadThrough(RouteCoordinates(assigned_bins))) ELSE 0,
     route_geometry |-> IF assigned_bins # <<>> /\ osrm_ok
                        THEN RoadThrough(RouteCoordinates(assigned_bins)) ELSE <<>>]

\* _optimize_truck_route: the bins keep their order; the geometry, distance
\* and duration are the route query's when it answers, else the geometry is
\* depot -> bins -> depot and distance and duration are reported as 0
optimize_truck_route(assigned_bins, osrm_ok) ==
    [optimized_bin_ids |-> assigned_bins,
     total_distance |-> IF assigned_bins # <<>> /\ osrm_ok
                        THEN RoadKm(RoadThrough(RouteCoordinates(assigned_bins))) ELSE 0,
     total_duration |-> IF assigned_bins # <<>> /\ osrm_ok
                        THEN RoadMinutes(RoadThrough(RouteCoordinates(assigned_bins))) ELSE 0,
     route_geometry |-> IF assigned_bins = <<>> THEN <<>>
                        ELSE IF osrm_ok THEN RoadThrough(RouteCoordinates(assigned_bins))
                        ELSE RouteCoordinates(assigned_bins)]

\* ------------------------------------------------- optimization coordinator
\* full_reoptimize(trucks, bins): the trucks after route assignment and the
\* per-truck route results.  `routes` maps a truck to its result, or to
\* NoRoute when the truck got none.
NoRoute ==
    [optimized_bin_ids |-> <<>>, total_distance |-> 0, total_duration |-> 0,
     route_geometry |-> <<>>]

RECURSIVE SumRouteLengths(_, _)
SumRouteLengths(routes, ts) ==
    IF ts = <<>> THEN 0
    ELSE Len(routes[Head(ts)].optimized_bin_ids) + SumRouteLengths(routes, Tail(ts))

AllocationOf(allocation, t) ==
    IF \E i \in 1..Len(allocation) : allocation[i].truck_id = t
    THEN LET i == CHOOSE i \in 1..Len(allocation) : allocation[i].truck_id = t
         IN allocation[i].selected_ids
    ELSE <<>>

full_reoptimize(trs, bns, truck_list, bin_list, osrm_ok) ==
    LET available_trucks == SelectSeq(truck_list, LAMBDA t : is_available(trs[t]))
        allocation == optimize_multi_truck_allocation(trs, bns, available_trucks, bin_list)
        \* selected_bins: the bins of bin_list whose id was selected, in list order
        selected_bins(t) == SelectSeq(bin_list, LAMBDA b : InSeq(AllocationOf(allocation, t), b))
        routes == [t \in Trucks |->
                      IF InSeq(available_trucks, t) /\ selected_bins(t) # <<>>
                      THEN optimize_truck_route(selected_bins(t), osrm_ok)
                      ELSE NoRoute]
    IN IF bin_list = <<>>
       THEN [success |-> TRUE, message |-> "No bins need collection",
             trucks |-> trs, routes |-> [t \in Trucks |-> NoRoute], bins_assigned |-> 0]
       ELSE IF available_trucks = <<>>
       THEN [success |-> FALSE, message |-> "No trucks available",
             trucks |-> trs, routes |-> [t \in Trucks |-> NoRoute], bins_assigned |-> 0]
       ELSE [success |-> TRUE, message |-> "none",
             trucks |-> [t \in Trucks |->
                            IF routes[t] # NoRoute
                            THEN assign_route(trs[t], routes[t].optimized_bin_ids)
                            ELSE trs[t]],
             routes |-> routes,
             bins_assigned |-> SumRouteLengths(routes, TruckOrder)]

\* ------------------------------------------------------ simulation engine
\* _find_nearest_depot: only a depot whose status is active is a candidate
find_nearest_depot(d) == d.status = "active"

\* index (0-based) of the first polyline point closest to the truck
ClosestIndex(geometry, location) ==
    CHOOSE i \in 0..(Len(geometry) - 1) :
        /\ \A j \in 0..(Len(geometry) - 1) :
               Distance(location, geometry[i + 1]) <= Distance(location, geometry[j + 1])
        /\ \A j \in 0..(i - 1) :
               Distance(location, geometry[j + 1]) > Distance(location, geometry[i + 1])

move_along_route_geometry(t, route_geometry, target_location, time_delta, traffic) ==
    IF route_geometry = <<>> THEN move_towards(t, target_location, time_delta, traffic)
    ELSE LET closest_index == ClosestIndex(route_geometry, t.location)
         IN IF closest_index < Len(route_geometry) - 1
            THEN LET mv == move_towards(t, route_geometry[closest_index + 2],
                                        time_delta, traffic)
                 IN [truck |-> mv.truck,
                     reached |-> Distance(mv.truck.location, target_location) < RoutePrecision]
            ELSE move_towards(t, target_location, time_delta, traffic)

\* _handle_bin_collection: the truck, the bin and the event afterwards
handle_bin_collection(id, t, b, bn) ==
    IF bn.status # "active" \/ is_full(t, TruckCapacity[id])
    THEN [truck |-> t, bin |-> bn, event |-> NoEvent]
    ELSE LET bin_load == bin_load_of(b, bn)
         IN IF can_collect_bin(t, TruckCapacity[id], bin_load)
            THEN LET collected_amount == bin_load_of(b, bn)
                     t2 == collect_bin(t, TruckCapacity[id], b, collected_amount)
                 IN [truck |-> t2,
                     bin |-> reset_status(bin_collect(bn)),
                     event |-> Event("bin_collected", id, b, collected_amount)]
            ELSE [truck |-> t, bin |-> bn, event |-> Event("collection_failed", id, b, 0)]

\* _handle_en_route_truck_with_geometry
handle_en_route_truck(id, t, bns, geometry, time_delta, traffic) ==
    LET next_bin_id == get_next_destination(t)
    IN IF next_bin_id = NoBin
       THEN [truck |-> [t EXCEPT !.status = IF t.load > 0 THEN "returning" ELSE "idle"],
             bins |-> bns, event |-> NoEvent]
       ELSE LET target == BinLocation[next_bin_id]
                mv == IF geometry # <<>>
                      THEN move_along_route_geometry(t, geometry, target, time_delta, traffic)
                      ELSE move_towards(t, target, time_delta, traffic)
            IN IF mv.reached
               THEN LET c == handle_bin_collection(id, mv.truck, next_bin_id, bns[next_bin_id])
                    IN [truck |-> advance_route(c.truck),
                        bins |-> [bns EXCEPT ![next_bin_id] = c.bin],
                        event |-> c.event]
               ELSE [truck |-> mv.truck, bins |-> bns, event |-> NoEvent]

\* _handle_depot_arrival; `open` is whether the wall-clock hour lies inside
\* the depot's operating hours (can_accept_waste reads datetime.now())
handle_depot_arrival(id, t, d, geometry, open) ==
    IF t.load > 0
    THEN IF can_accept_waste(d, open, t.load)
         THEN [truck |-> [empty_load(t) EXCEPT !.status = "idle", !.location = DepotLocation],
               depot |-> receive_waste(d, open, t.load),
               geometry |-> <<>>,
               event |-> Event("truck_emptied_at_depot", id, NoBin, t.load)]
         ELSE [truck |-> t, depot |-> d, geometry |-> geometry,
               event |-> Event("depot_full", id, NoBin, t.load)]
    ELSE [truck |-> [t EXCEPT !.status = "idle", !.location = DepotLocation],
          depot |-> d, geometry |-> geometry, event |-> NoEvent]

\* _handle_returning_truck
handle_returning_truck(id, t, d, geometry, time_delta, traffic, open) ==
    IF ~find_nearest_depot(d)
    THEN [truck |-> [t EXCEPT !.status = "idle"], depot |-> d, geometry |-> geometry,
          event |-> NoEvent]
    ELSE LET mv == move_towards(t, DepotLocation, time_delta, traffic)
         IN IF mv.reached
            THEN handle_depot_arrival(id, mv.truck, d, geometry, open)
            ELSE [truck |-> mv.truck, depot |-> d, geometry |-> geometry, event |-> NoEvent]

\* _move_single_truck_with_route: everything one truck's movement step changes
move_single_truck(id, t, bns, d, geometry, time_delta, traffic, open) ==
    LET same == [truck |-> t, bins |-> bns, depot |-> d, geometry |-> geometry,
                 event |-> NoEvent]
    IN CASE t.status = "idle" ->
              IF t.route # <<>>
              THEN [same EXCEPT !.truck = [t EXCEPT !.status = "en_route"],
                                !.event = Event("truck_started_route", id, NoBin, 0)]
              ELSE same
         [] t.status = "en_route" ->
              LET r == handle_en_route_truck(id, t, bns, geometry, time_delta, traffic)
              IN [same EXCEPT !.truck = r.truck, !.bins = r.bins, !.event = r.event]
         [] t.status = "collecting" ->
              [same EXCEPT !.truck = [t EXCEPT !.status = "en_route"],
                           !.event = Event("truck_finished_collecting", id, NoBin, 0)]
         [] t.status = "returning" ->
              LET r == handle_returning_truck(id, t, d, geometry, time_delta, traffic, open)
              IN [same EXCEPT !.truck = r.truck, !.depot = r.depot,
                              !.geometry = r.geometry, !.event = r.event]
         [] OTHER -> same

\* _get_bins_needing_collection and _get_urgent_bins, in list order
get_bins_needing_collection(bns) ==
    SelectSeq(BinOrder, LAMBDA b : bns[b].status = "active"
                                   /\ bns[b].fill_level >= threshold_for(b))

get_urgent_bins(bns) ==
    SelectSeq(BinOrder, LAMBDA b : bns[b].status = "active"
                                   /\ bns[b].fill_level >= UrgentBinThreshold)

SeqToSet(s) == {s[i] : i \in 1..Len(s)}

\* the last event of a sequence of per-entity events (NoEvent when none was logged)
RECURSIVE LastLogged(_)
LastLogged(es) ==
    IF es = <<>> THEN NoEvent
    ELSE IF es[Len(es)] # NoEvent THEN es[Len(es)]
    ELSE LastLogged(SubSeq(es, 1, Len(es) - 1))

\* the geometry table after storing the route geometries of a result
store_geometries(geometry, result) ==
    [t \in Trucks |-> IF result.routes[t] # NoRoute
                      THEN result.routes[t].route_geometry
                      ELSE geometry[t]]

\* ------------------------------------------------------------------- Init
\* TimeManager.__init__: time in microseconds, the wall clock in units of
\* 1 / WallUnitsPerMicrosecond microseconds
NoInstant == -1

ServicesInit ==
    /\ time_manager = [speed |-> 1, is_paused |-> FALSE, sim_time |-> 0, real_last |-> 0,
                       last_delta |-> 0]
    /\ perf_counter = 0
    /\ clock_call = [op |-> "none", previous_op |-> "none", arg |-> 0, at |-> 0, calls |-> 0,
                     changed |-> FALSE, skipped |-> 0, advance |-> 0,
                     previous_now |-> NoInstant, last_now |-> NoInstant,
                     previous_now_at |-> 0, now_at |-> 0,
                     set_time_between |-> FALSE, now_calls_paused |-> 0]
    \* TrafficService.__init__: multipliers in thousandths, times in minutes
    \* since Monday 00:00
    /\ traffic_service = [mode |-> "auto", manual_mult |-> 1000, last_update_time |-> 0,
                          current_auto_multiplier |-> 1000, traffic_events |-> <<>>]
    /\ traffic_call = [op |-> "none", calls |-> 0, at |-> 0, raised |-> FALSE, result |-> 0,
                       updated |-> FALSE, manual_arg |-> 0, manual_at |-> 0]
    \* ThresholdService.__init__: thresholds in thousandths of a percent
    /\ threshold_service = [mode |-> "static",
                            static_thresholds |-> [general |-> 80000, recyclable |-> 85000,
                                                   hazardous |-> 70000]]
    /\ threshold_call = [op |-> "none", calls |-> 0, raised |-> FALSE, result |-> 0,
                         unclamped |-> 0]
    \* initialize_default_jobs at start-up: schedule_collection(2, (8, 18))
    /\ collection_jobs = <<[job_id |-> 0, hour |-> 8, minute |-> 0],
                           [job_id |-> 1, hour |-> 13, minute |-> 0]>>

Init ==
    /\ trucks \in [Trucks -> {[status |-> "idle", location |-> DepotLocation, load |-> 0,
                                fuel_level |-> f, route |-> <<>>,
                                current_route_index |-> 0] : f \in InitFuelChoices}]
    /\ bins \in [BinIds -> {[fill_level |-> f, status |-> "active"] : f \in InitFillChoices}]
    /\ depot = [current_load |-> 0, status |-> "active"]
    /\ truck_routes_geometry = [t \in Trucks |-> <<>>]
    /\ truck_maintenance_start = [t \in Trucks |-> NoStart]
    /\ since_auto_opt = 0
    /\ urgent_bins_last_check = {}
    /\ last_delta = 0
    /\ tick_traffic = 1
    /\ pc = "sleep"
    /\ requests = 0
    /\ faults = 0
    /\ move_i = 0
    /\ held_next_bin_id = NoBin
    /\ knapsack = NoCall
    /\ maintenance_elapsed = [t \in Trucks |-> NoStart]
    /\ ServicesInit
    /\ last_event = NoEvent

\* ---------------------------------------------------------- engine thread
\* run(): time_manager.now() advances the clock by the elapsed time and
\* records it as the last delta; the step then begins
\* the simulated time each truck has been in its current maintenance period,
\* after a step in which d minutes pass (saturating at the configured duration)
elapsed_after(d) ==
    [t \in Trucks |->
        IF trucks'[t].status # "maintenance" THEN NoStart
        ELSE IF trucks[t].status # "maintenance" THEN 0
        ELSE Min(MaintenanceDuration, maintenance_elapsed[t] + d)]

TickBeginWith(d) ==
    /\ pc = "sleep"
    /\ last_delta' = d
    /\ since_auto_opt' = Min(AutoOptInterval, since_auto_opt + d)
    /\ truck_maintenance_start' =
          [t \in Trucks |-> IF truck_maintenance_start[t] = NoStart THEN NoStart
                            ELSE Min(MaintenanceDuration, truck_maintenance_start[t] + d)]
    /\ pc' = "fill"
    /\ last_event' = NoEvent
    /\ UNCHANGED <<held_next_bin_id, knapsack, trucks, bins, depot, truck_routes_geometry, urgent_bins_last_check,
                   tick_traffic, move_i, requests, faults>>
    /\ maintenance_elapsed' = elapsed_after(d)
    /\ UNCHANGED services

TickBegin == \E d \in 1..MaxDelta : TickBeginWith(d)

\* the events _update_bin_fill_levels logs for one bin
FillEvents(b, old, new) ==
    <<IF new.fill_level >= 100 /\ old.fill_level < 100
      THEN Event("bin_overflow", "none", b, 0) ELSE NoEvent,
      IF new.fill_level >= threshold_for(b) /\ old.fill_level < threshold_for(b)
      THEN Event("bin_needs_collection", "none", b, 0) ELSE NoEvent>>

\* _update_bin_fill_levels, with _handle_bin_overflow
TickFill ==
    /\ pc = "fill"
    /\ LET filled == [b \in BinIds |-> update_fill_level(b, bins[b], last_delta)]
           new == [b \in BinIds |->
                     IF bins[b].status = "active"
                        /\ filled[b].fill_level >= 100 /\ bins[b].fill_level < 100
                     THEN [filled[b] EXCEPT !.status = "full"]
                     ELSE filled[b]]
           evs == [i \in 1..(2 * Len(BinOrder)) |->
                     LET b == BinOrder[(i + 1) \div 2]
                     IN IF bins[b].status = "active"
                        THEN FillEvents(b, bins[b], new[b])[2 - (i % 2)]
                        ELSE NoEvent]
       IN /\ bins' = new
          /\ last_event' = LastLogged(evs)
    /\ pc' = "depots"
    /\ UNCHANGED <<held_next_bin_id, knapsack, trucks, depot, truck_routes_geometry, truck_maintenance_start,
                   since_auto_opt, urgent_bins_last_check, last_delta, tick_traffic, move_i, requests, faults>>
    /\ maintenance_elapsed' = elapsed_after(0)
    /\ UNCHANGED services

\* _process_depots: the operating hours are checked once against the
\* simulated hour and once, inside process_waste, against the wall clock
TickDepotsWith(sim_open, wall_open) ==
    /\ pc = "depots"
    /\ LET d == IF is_operational(depot, sim_open)
                THEN process_waste(depot, wall_open, last_delta)
                ELSE depot
           processed == depot.current_load - d.current_load
       IN /\ depot' = d
          /\ last_event' = IF processed > 0
                            THEN Event("depot_processed_waste", "none", NoBin, processed)
                            ELSE NoEvent
    /\ pc' = "maint_completion"
    /\ UNCHANGED <<held_next_bin_id, knapsack, trucks, bins, truck_routes_geometry, truck_maintenance_start,
                   since_auto_opt, urgent_bins_last_check, last_delta, tick_traffic, move_i, requests, faults>>
    /\ maintenance_elapsed' = elapsed_after(0)
    /\ UNCHANGED services

TickDepots == \E sim_open, wall_open \in BOOLEAN : TickDepotsWith(sim_open, wall_open)

\* _handle_automatic_maintenance_completion
TickMaintCompletion ==
    /\ pc = "maint_completion"
    /\ LET started == [t \in Trucks |->
                         IF trucks[t].status = "maintenance"
                            /\ truck_maintenance_start[t] = NoStart
                         THEN 0 ELSE truck_maintenance_start[t]]
           done(t) == trucks[t].status = "maintenance"
                      /\ started[t] >= MaintenanceDuration
       IN /\ trucks' = [t \in Trucks |->
                          IF done(t) THEN complete_maintenance(trucks[t]) ELSE trucks[t]]
          /\ truck_maintenance_start' =
                [t \in Trucks |-> IF done(t) THEN NoStart ELSE started[t]]
          /\ last_event' = LastLogged([i \in 1..Len(TruckOrder) |->
                               IF done(TruckOrder[i])
                               THEN Event("maintenance_completed", TruckOrder[i], NoBin, 0)
                               ELSE NoEvent])
    /\ pc' = "move"
    /\ move_i' = 0
    /\ UNCHANGED <<held_next_bin_id, knapsack, bins, depot, truck_routes_geometry, since_auto_opt,
                   urgent_bins_last_check, last_delta, tick_traffic, requests, faults>>
    /\ maintenance_elapsed' = elapsed_after(0)
    /\ UNCHANGED services

\* _move_trucks_with_route_following, first two statements: the traffic
\* multiplier (between 1 and 2) and the time delta are read once per tick
TickTraffic ==
    /\ pc = "move" /\ move_i = 0
    /\ \E m \in 1..MaxTraffic : tick_traffic' = m
    /\ move_i' = 1
    /\ last_event' = NoEvent
    /\ UNCHANGED <<held_next_bin_id, knapsack, trucks, bins, depot, truck_routes_geometry, truck_maintenance_start,
                   since_auto_opt, urgent_bins_last_check, last_delta, pc, requests, faults>>
    /\ maintenance_elapsed' = elapsed_after(0)
    /\ UNCHANGED services

\* current_multiplier() raises in automatic mode when an update is due
\* outside the morning rush window (evening_start is unbound); _step
\* catches the exception and the rest of the step is skipped
TickTrafficFailure ==
    /\ pc = "move" /\ move_i = 0
    /\ requests + faults < MaxDisturbances
    /\ faults' = faults + 1
    /\ pc' = "sleep"
    /\ last_event' = NoEvent
    /\ UNCHANGED <<held_next_bin_id, knapsack, trucks, bins, depot, truck_routes_geometry, truck_maintenance_start,
                   since_auto_opt, urgent_bins_last_check, last_delta, tick_traffic, move_i,
                   requests>>
    /\ maintenance_elapsed' = elapsed_after(0)
    /\ UNCHANGED services

\* one iteration of the movement loop: _move_single_truck_with_route for
\* the truck at position move_i (offline and maintenance trucks are skipped)
TickMoveTruckWith(wall_open) ==
    /\ pc = "move" /\ move_i \in 1..Len(TruckOrder)
    /\ LET id == TruckOrder[move_i]
       IN   LET r == IF trucks[id].status \in {"offline", "maintenance"}
                     THEN [truck |-> trucks[id], bins |-> bins, depot |-> depot,
                           geometry |-> truck_routes_geometry[id], event |-> NoEvent]
                     ELSE move_single_truck(id, trucks[id], bins, depot,
                                            truck_routes_geometry[id], last_delta,
                                            tick_traffic, wall_open)
            IN /\ trucks' = [trucks EXCEPT ![id] = r.truck]
               /\ bins' = r.bins
               /\ depot' = r.depot
               /\ truck_routes_geometry' = [truck_routes_geometry EXCEPT ![id] = r.geometry]
               /\ last_event' = r.event
    /\ IF move_i = Len(TruckOrder)
       THEN pc' = "maintenance" /\ move_i' = 0 /\ tick_traffic' = 1
       ELSE pc' = pc /\ move_i' = move_i + 1 /\ tick_traffic' = tick_traffic
    /\ UNCHANGED <<held_next_bin_id, knapsack, truck_maintenance_start, since_auto_opt, urgent_bins_last_check,
                   last_delta, requests, faults>>
    /\ maintenance_elapsed' = elapsed_after(0)
    /\ UNCHANGED services

TickMoveTruck == \E wall_open \in BOOLEAN : TickMoveTruckWith(wall_open)

\* _handle_truck_maintenance for one truck; `breaks` is the random draw
handle_truck_maintenance(id, t, breaks) ==
    LET low == needs_maintenance(t) /\ t.status # "maintenance"
        t1 == IF low THEN perform_maintenance(t) ELSE t
        broke == t1.status \notin {"maintenance", "offline"} /\ breaks
    IN [truck |-> IF broke THEN perform_maintenance(t1) ELSE t1,
        event |-> IF broke THEN Event("truck_breakdown", id, NoBin, 0)
                  ELSE IF low THEN Event("truck_maintenance_started", id, NoBin, 0)
                  ELSE NoEvent]

TickMaintenanceWith(breakdowns) ==
    /\ pc = "maintenance"
    /\ LET r == [t \in Trucks |-> handle_truck_maintenance(t, trucks[t], t \in breakdowns)]
       IN /\ trucks' = [t \in Trucks |-> r[t].truck]
          /\ last_event' = LastLogged([i \in 1..Len(TruckOrder) |-> r[TruckOrder[i]].event])
    /\ faults' = IF breakdowns = {} THEN faults ELSE faults + 1
    /\ pc' = "auto_opt"
    /\ UNCHANGED <<held_next_bin_id, knapsack, bins, depot, truck_routes_geometry, truck_maintenance_start,
                   since_auto_opt, urgent_bins_last_check, last_delta, tick_traffic, move_i,
                   requests>>
    /\ maintenance_elapsed' = elapsed_after(0)
    /\ UNCHANGED services

TickMaintenance ==
    \E breakdowns \in SUBSET Trucks :
        /\ breakdowns # {} => requests + faults < MaxDisturbances
        /\ TickMaintenanceWith(breakdowns)

\* _handle_automatic_optimization; osrm_ok is whether the route query answers
TickAutoOptWith(osrm_choices) ==
    /\ pc = "auto_opt"
    /\ \E osrm_ok \in osrm_choices :
          LET should_optimize_scheduled == since_auto_opt >= AutoOptInterval
              urgent_bins == get_urgent_bins(bins)
              should_optimize_urgent ==
                  \E b \in SeqToSet(urgent_bins) : b \notin urgent_bins_last_check
              bins_needing_collection == get_bins_needing_collection(bins)
              should_optimize_idle ==
                  /\ \E t \in Trucks : trucks[t].status = "idle" /\ is_available(trucks[t])
                  /\ bins_needing_collection # <<>>
              available_trucks == SelectSeq(TruckOrder, LAMBDA t : is_available(trucks[t]))
              result == full_reoptimize(trucks, bins, available_trucks,
                                        bins_needing_collection, osrm_ok)
          IN IF (should_optimize_scheduled \/ should_optimize_urgent \/ should_optimize_idle)
                /\ available_trucks # <<>> /\ bins_needing_collection # <<>>
             THEN /\ trucks' = result.trucks
                  /\ truck_routes_geometry' =
                        IF result.success
                        THEN store_geometries(truck_routes_geometry, result)
                        ELSE truck_routes_geometry
                  /\ last_event' = IF result.success
                                    THEN Event("auto_optimization_completed", "none", NoBin,
                                               result.bins_assigned)
                                    ELSE NoEvent
                  /\ since_auto_opt' = 0
                  /\ urgent_bins_last_check' = SeqToSet(urgent_bins)
             ELSE /\ last_event' = NoEvent
                  /\ UNCHANGED <<trucks, truck_routes_geometry, since_auto_opt,
                                 urgent_bins_last_check>>
    /\ pc' = "sleep"
    /\ UNCHANGED <<held_next_bin_id, knapsack, bins, depot, truck_maintenance_start, last_delta, tick_traffic, move_i, requests, faults>>
    /\ maintenance_elapsed' = elapsed_after(0)
    /\ UNCHANGED services

TickAutoOpt == TickAutoOptWith(BOOLEAN)

\* whether a step belongs to the engine thread
EngineStep == pc' # pc \/ move_i' # move_i

\* ------------------------------------------------------------ REST commands
\* The request handlers run on other threads and may act between any two
\* steps of the engine.  Each leaves the engine's position unchanged.
ApiFrame ==
    /\ requests + faults < MaxDisturbances
    /\ requests' = requests + 1
    /\ UNCHANGED <<held_next_bin_id, knapsack, pc, move_i, last_delta, tick_traffic, since_auto_opt,
                   urgent_bins_last_check, truck_maintenance_start, faults>>

RouteChoices == {<<"b1">>, <<"b2">>, <<"b1", "b2">>}

\* POST /trucks/<id>/route
ApiAssignRoute ==
    /\ \E t \in Trucks, bin_ids \in RouteChoices :
          /\ is_available(trucks[t])
          /\ trucks' = [trucks EXCEPT ![t] = assign_route(trucks[t], bin_ids)]
    /\ last_event' = NoEvent
    /\ ApiFrame
    /\ UNCHANGED <<bins, depot, truck_routes_geometry>>
    /\ maintenance_elapsed' = elapsed_after(0)
    /\ UNCHANGED services

\* DELETE /trucks/<id>/route
ApiClearRoute ==
    /\ \E t \in Trucks :
          /\ trucks[t].route # <<>> \/ trucks[t].status # "idle"
          /\ trucks' = [trucks EXCEPT ![t] = assign_route(trucks[t], <<>>)]
    /\ last_event' = NoEvent
    /\ ApiFrame
    /\ UNCHANGED <<bins, depot, truck_routes_geometry>>
    /\ maintenance_elapsed' = elapsed_after(0)
    /\ UNCHANGED services

\* POST /trucks/<id>/maintenance with action start or complete
ApiSetMaintenance ==
    /\ \E t \in Trucks, action \in {"start", "complete"} :
          /\ action = "complete" => trucks[t].status = "maintenance"
          /\ trucks' = [trucks EXCEPT ![t] = IF action = "start"
                                             THEN perform_maintenance(trucks[t])
                                             ELSE complete_maintenance(trucks[t])]
    /\ last_event' = NoEvent
    /\ ApiFrame
    /\ UNCHANGED <<bins, depot, truck_routes_geometry>>
    /\ maintenance_elapsed' = elapsed_after(0)
    /\ UNCHANGED services

\* POST /trucks/<id>/status with online or offline
ApiSetStatus ==
    /\ \E t \in Trucks, offline \in BOOLEAN :
          trucks' = [trucks EXCEPT ![t] = set_offline(trucks[t], offline)]
    /\ last_event' = NoEvent
    /\ ApiFrame
    /\ UNCHANGED <<bins, depot, truck_routes_geometry>>
    /\ maintenance_elapsed' = elapsed_after(0)
    /\ UNCHANGED services

\* POST /trucks/<id>/empty
ApiEmptyTruck ==
    /\ \E t \in Trucks :
          /\ trucks[t].load > 0
          /\ trucks' = [trucks EXCEPT ![t] = empty_load(trucks[t])]
    /\ last_event' = NoEvent
    /\ ApiFrame
    /\ UNCHANGED <<bins, depot, truck_routes_geometry>>
    /\ maintenance_elapsed' = elapsed_after(0)
    /\ UNCHANGED services

\* POST /bins/<id>/collect: the first available truck that can take the load
ApiCollectBin ==
    /\ \E b \in BinIds :
          /\ bins[b].status = "active"
          /\ LET fits == SelectSeq(TruckOrder, LAMBDA t :
                              is_available(trucks[t])
                              /\ can_collect_bin(trucks[t], TruckCapacity[t],
                                                 bin_load_of(b, bins[b])))
             IN /\ fits # <<>>
                /\ trucks' = [trucks EXCEPT ![fits[1]] = assign_route(trucks[fits[1]], <<b>>)]
    /\ last_event' = NoEvent
    /\ ApiFrame
    /\ UNCHANGED <<bins, depot, truck_routes_geometry>>
    /\ maintenance_elapsed' = elapsed_after(0)
    /\ UNCHANGED services

\* POST /optimization/optimize in manual mode: trigger_manual_optimization
ApiOptimize ==
    /\ \E osrm_ok \in BOOLEAN :
          LET available_trucks == SelectSeq(TruckOrder, LAMBDA t : is_available(trucks[t]))
              bins_needing_collection == get_bins_needing_collection(bins)
              result == full_reoptimize(trucks, bins, available_trucks,
                                        bins_needing_collection, osrm_ok)
          IN /\ available_trucks # <<>> /\ bins_needing_collection # <<>>
             /\ trucks' = result.trucks
             /\ truck_routes_geometry' = IF result.success
                                         THEN store_geometries(truck_routes_geometry, result)
                                         ELSE truck_routes_geometry
             /\ last_event' = Event("manual_optimization_triggered", "none", NoBin,
                                    result.bins_assigned)
    /\ ApiFrame
    /\ UNCHANGED <<bins, depot>>
    /\ maintenance_elapsed' = elapsed_after(0)
    /\ UNCHANGED services

\* the scheduler's _trigger_reoptimize (and POST /bins/collect/urgent): every
\* truck is handed to full_reoptimize and the geometries are not stored
ScheduledReoptimize ==
    /\ LET bins_needing_collection == get_bins_needing_collection(bins)
           result == full_reoptimize(trucks, bins, TruckOrder, bins_needing_collection, TRUE)
       IN /\ bins_needing_collection # <<>>
          /\ trucks' = result.trucks
          /\ last_event' = Event("scheduled_optimization", "none", NoBin, 0)
    /\ ApiFrame
    /\ UNCHANGED <<bins, depot, truck_routes_geometry>>
    /\ maintenance_elapsed' = elapsed_after(0)
    /\ UNCHANGED services

\* POST /optimization/clear_all_routes
ApiClearAllRoutes ==
    /\ \E t \in Trucks : trucks[t].route # <<>> \/ truck_routes_geometry[t] # <<>>
    /\ trucks' = [t \in Trucks |-> assign_route(trucks[t], <<>>)]
    /\ truck_routes_geometry' = [t \in Trucks |-> <<>>]
    /\ last_event' = NoEvent
    /\ ApiFrame
    /\ UNCHANGED <<bins, depot>>
    /\ maintenance_elapsed' = elapsed_after(0)
    /\ UNCHANGED services

\* Depot.empty_depot (manual emptying)
EmptyDepot ==
    /\ depot.current_load > 0
    /\ depot' = empty_depot(depot)
    /\ last_event' = NoEvent
    /\ ApiFrame
    /\ UNCHANGED <<trucks, bins, truck_routes_geometry>>
    /\ maintenance_elapsed' = elapsed_after(0)
    /\ UNCHANGED services

Engine ==
    \/ TickBegin
    \/ TickFill
    \/ TickDepots
    \/ TickMaintCompletion
    \/ TickTraffic
    \/ TickTrafficFailure
    \/ TickMoveTruck
    \/ TickMaintenance
    \/ TickAutoOpt

Commands ==
    \/ ApiAssignRoute
    \/ ApiClearRoute
    \/ ApiSetMaintenance
    \/ ApiSetStatus
    \/ ApiEmptyTruck
    \/ ApiCollectBin
    \/ ApiOptimize
    \/ ScheduledReoptimize
    \/ ApiClearAllRoutes
    \/ EmptyDepot

Next == Engine \/ Commands

Spec == Init /\ [][Next]_vars

\* the engine thread alone: ticks and automatic re-optimizations, no command
EngineSpec == Init /\ [][Engine]_vars

\* ------------------------------------------------------------ radar check
RadarRouteLimit == 10

\* a variant that hands the en-route truck its lengthened route as a new
\* route, which restarts it from the first stop
try_incremental_insertion_reassigning(trs, b) ==
    LET fits(t) == can_collect_bin(trs[t], TruckCapacity[t], BinCapacity[b])
        idle == SelectSeq(TruckOrder, LAMBDA t : trs[t].status = "idle" /\ fits(t))
        moving == SelectSeq(TruckOrder, LAMBDA t : trs[t].status = "en_route" /\ fits(t)
                                                   /\ Len(trs[t].route) < RadarRouteLimit)
    IN IF idle # <<>>
       THEN [trs EXCEPT ![idle[1]] = assign_route(trs[idle[1]], <<b>>)]
       ELSE IF moving # <<>>
       THEN [trs EXCEPT ![moving[1]] =
                assign_route(trs[moving[1]], Append(trs[moving[1]].route, b))]
       ELSE trs

\* _try_incremental_insertion of one bin: an idle truck first, else the
\* tail of an en-route truck's route
try_incremental_insertion(trs, b) ==
    LET fits(t) == can_collect_bin(trs[t], TruckCapacity[t], BinCapacity[b])
        idle == SelectSeq(TruckOrder, LAMBDA t : trs[t].status = "idle" /\ fits(t))
        moving == SelectSeq(TruckOrder, LAMBDA t : trs[t].status = "en_route" /\ fits(t)
                                                   /\ Len(trs[t].route) < RadarRouteLimit)
    IN IF idle # <<>>
       THEN [trs EXCEPT ![idle[1]] = assign_route(trs[idle[1]], <<b>>)]
       ELSE IF moving # <<>>
       THEN [trs EXCEPT ![moving[1]].route = Append(trs[moving[1]].route, b)]
       ELSE trs

RECURSIVE InsertAll(_, _)
InsertAll(trs, urgent) ==
    IF urgent = <<>> THEN trs
    ELSE InsertAll(try_incremental_insertion(trs, Head(urgent)), Tail(urgent))

\* maybe_reoptimize when the radar interval has elapsed
MaybeReoptimize ==
    /\ get_bins_needing_collection(bins) # <<>>
    /\ trucks' = InsertAll(trucks, get_bins_needing_collection(bins))
    /\ last_event' = NoEvent
    /\ ApiFrame
    /\ UNCHANGED <<bins, depot, truck_routes_geometry>>
    /\ maintenance_elapsed' = elapsed_after(0)
    /\ UNCHANGED services

RadarSpec == Init /\ [][Next \/ MaybeReoptimize]_vars

\* ------------------------------------------- the tick and other threads
\* No lock guards the entities: a request handler or the scheduler can run
\* between any two statements of the engine thread.  The two actions below
\* split _handle_en_route_truck_with_geometry where it has read next_bin_id
\* and has not yet moved the truck, collected or advanced the cursor.

\* the handler from `target_bin = ...` on, for the next_bin_id it read
finish_en_route_truck(id, t, bns, geometry, time_delta, traffic, b) ==
    LET target == BinLocation[b]
        mv == IF geometry # <<>>
              THEN move_along_route_geometry(t, geometry, target, time_delta, traffic)
              ELSE move_towards(t, target, time_delta, traffic)
    IN IF mv.reached
       THEN LET c == handle_bin_collection(id, mv.truck, b, bns[b])
            IN [truck |-> advance_route(c.truck),
                bins |-> [bns EXCEPT ![b] = c.bin],
                event |-> c.event]
       ELSE [truck |-> mv.truck, bins |-> bns, event |-> NoEvent]

TickMoveRead ==
    /\ pc = "move" /\ move_i \in 1..Len(TruckOrder)
    /\ trucks[TruckOrder[move_i]].status = "en_route"
    /\ get_next_destination(trucks[TruckOrder[move_i]]) # NoBin
    /\ held_next_bin_id' = get_next_destination(trucks[TruckOrder[move_i]])
    /\ pc' = "moving"
    /\ last_event' = NoEvent
    /\ UNCHANGED <<trucks, bins, depot, truck_routes_geometry, truck_maintenance_start,
                   since_auto_opt, urgent_bins_last_check, last_delta, tick_traffic,
                   requests, faults, move_i, knapsack>>
    /\ maintenance_elapsed' = elapsed_after(0)
    /\ UNCHANGED services

TickMoveWrite ==
    /\ pc = "moving"
    /\ LET id == TruckOrder[move_i]
           r == finish_en_route_truck(id, trucks[id], bins, truck_routes_geometry[id],
                                      last_delta, tick_traffic, held_next_bin_id)
       IN /\ trucks' = [trucks EXCEPT ![id] = r.truck]
          /\ bins' = r.bins
          /\ last_event' = r.event
    /\ held_next_bin_id' = NoBin
    /\ IF move_i = Len(TruckOrder)
       THEN pc' = "maintenance" /\ move_i' = 0 /\ tick_traffic' = 1
       ELSE pc' = "move" /\ move_i' = move_i + 1 /\ tick_traffic' = tick_traffic
    /\ UNCHANGED <<depot, truck_routes_geometry, truck_maintenance_start, since_auto_opt,
                   urgent_bins_last_check, last_delta, requests, faults, knapsack>>
    /\ maintenance_elapsed' = elapsed_after(0)
    /\ UNCHANGED services

InterleavedSpec == Init /\ [][Next \/ TickMoveRead \/ TickMoveWrite]_vars

\* C11: a tick's processing of a truck is atomic with respect to external
\* mutations: while the engine is between its read of the truck's next stop
\* and its writes, no step of another thread changes that truck's route,
\* cursor or status.
TickAtomicOnTruck ==
    [][(pc = "moving" /\ ~EngineStep) =>
          LET id == TruckOrder[move_i]
          IN /\ trucks'[id].route = trucks[id].route
             /\ trucks'[id].current_route_index = trucks[id].current_route_index
             /\ trucks'[id].status = trucks[id].status]_vars

\* ------------------------------------------- maintenance requests repeated
\* The engine together with POST /trucks/<id>/maintenance, served up to
\* MaxMaintenanceRequests times at any point of a tick.
MaxMaintenanceRequests == 2

MaintenanceRequest ==
    /\ requests < MaxMaintenanceRequests
    /\ \E t \in Trucks, action \in {"start", "complete"} :
          /\ action = "complete" => trucks[t].status = "maintenance"
          /\ trucks' = [trucks EXCEPT ![t] = IF action = "start"
                                             THEN perform_maintenance(trucks[t])
                                             ELSE complete_maintenance(trucks[t])]
    /\ last_event' = NoEvent
    /\ requests' = requests + 1
    /\ UNCHANGED <<held_next_bin_id, knapsack, pc, move_i, last_delta, tick_traffic,
                   since_auto_opt, urgent_bins_last_check, truck_maintenance_start, faults,
                   bins, depot, truck_routes_geometry>>
    /\ maintenance_elapsed' = elapsed_after(0)
    /\ UNCHANGED services

MaintenanceSpec == Init /\ [][Engine \/ MaintenanceRequest]_vars

\* ------------------------------------------ the knapsack solver by itself
\* Weights and capacities are in hundredths of a kilogram, so that weights
\* that are not multiples of 0.1 kg exist.
WeightMultiplier == 10
DpItemLimit == 50

\* int(weight * weight_multiplier)
int_weight(w) == (w * WeightMultiplier) \div 100

\* Values are Python floats: a sum is rounded to the nearest number with
\* MantissaBits significant bits, ties to the even mantissa (IEEE 754
\* round-half-even, with a short mantissa in place of the 53 bits of a double).
MantissaBits == 3

RECURSIVE Ulp(_)
Ulp(x) == IF x < 2 ^ MantissaBits THEN 1 ELSE 2 * Ulp(x \div 2)

fl_round(x) ==
    LET u == Ulp(x)
        lo == (x \div u) * u
        r == x - lo
    IN IF 2 * r < u THEN lo
       ELSE IF 2 * r > u THEN lo + u
       ELSE IF (lo \div u) % 2 = 0 THEN lo ELSE lo + u

fl_add(a, b) == fl_round(a + b)

\* dp[i][w] of _solve_dp
RECURSIVE dp_table(_, _, _)
dp_table(items, i, w) ==
    IF i = 0 THEN 0
    ELSE LET skip == dp_table(items, i - 1, w)
             iw == int_weight(items[i].weight)
         IN IF iw <= w
            THEN Max(skip, fl_add(dp_table(items, i - 1, w - iw), items[i].value))
            ELSE skip

\* the backtracking loop of _solve_dp, from item i down
RECURSIVE dp_backtrack(_, _, _)
dp_backtrack(items, i, w) ==
    IF i = 0 THEN <<>>
    ELSE IF dp_table(items, i, w) # dp_table(items, i - 1, w)
         THEN <<items[i].id>> \o dp_backtrack(items, i - 1, w - int_weight(items[i].weight))
         ELSE dp_backtrack(items, i - 1, w)

RECURSIVE TotalWeight(_, _)
TotalWeight(items, ids) ==
    IF items = <<>> THEN 0
    ELSE (IF InSeq(ids, Head(items).id) THEN Head(items).weight ELSE 0)
         + TotalWeight(Tail(items), ids)

ValueOf(items, id) ==
    LET k == CHOOSE k \in 1..Len(items) : items[k].id = id IN items[k].value

\* total_value += item.value over the selected ids, in selection order
RECURSIVE TotalValue(_, _)
TotalValue(items, ids) ==
    IF ids = <<>> THEN 0
    ELSE fl_add(TotalValue(items, SubSeq(ids, 1, Len(ids) - 1)),
                ValueOf(items, ids[Len(ids)]))

NoSelection == [selected_ids |-> <<>>, total_value |-> 0, total_weight |-> 0]

solve_dp(capacity, items) ==
    LET int_capacity == int_weight(capacity)
        selected_ids == dp_backtrack(items, Len(items), int_capacity)
    IN [selected_ids |-> selected_ids,
        total_value |-> dp_table(items, Len(items), int_capacity),
        total_weight |-> TotalWeight(items, selected_ids)]

solve_greedy_totals(capacity, items) ==
    LET selected_ids == solve_greedy(capacity, items)
    IN [selected_ids |-> selected_ids,
        total_value |-> TotalValue(items, selected_ids),
        total_weight |-> TotalWeight(items, selected_ids)]

\* KnapsackSolver.solve(capacity, items, algorithm)
solve_algorithm(capacity, items, algorithm) ==
    IF items = <<>> \/ capacity <= 0 THEN NoSelection
    ELSE LET valid_items == SelectSeq(items, LAMBDA it : it.weight <= capacity)
             chosen == IF algorithm = "auto"
                       THEN (IF Len(valid_items) <= DpItemLimit THEN "dp" ELSE "greedy")
                       ELSE algorithm
         IN IF valid_items = <<>> THEN NoSelection
            ELSE IF chosen = "dp" THEN solve_dp(capacity, valid_items)
            ELSE solve_greedy_totals(capacity, valid_items)

\* the inputs the solver is called with: up to MaxItems items, each with a
\* weight (some not a multiple of 0.1 kg) and a value; item ids are numbers
MaxItems == 3
KnapsackWeights == {30, 40, 55, 60}
KnapsackValues == {5, 6, 7}
KnapsackCapacities == {0, 50, 100, 120}

KnapsackItemLists ==
    UNION {{[i \in 1..n |-> [id |-> i, weight |-> f[i][1], value |-> f[i][2]]] :
               f \in [1..n -> KnapsackWeights \X KnapsackValues]} : n \in 0..MaxItems}

TruckCapacityLists ==
    {<<[truck_id |-> 1, capacity |-> a], [truck_id |-> 2, capacity |-> c]>> :
        a \in KnapsackCapacities, c \in KnapsackCapacities}

\* a call of KnapsackSolver.solve; the solver keeps nothing between calls
\* that affects a result, so one call per behaviour covers every call
KnapsackSolve ==
    /\ knapsack = NoCall
    /\ \E capacity \in KnapsackCapacities, items \in KnapsackItemLists,
          algorithm \in {"dp", "greedy", "auto"} :
          knapsack' = [op |-> "solve", capacity |-> capacity, items |-> items,
                       algorithm |-> algorithm,
                       result |-> solve_algorithm(capacity, items, algorithm)]
    /\ UNCHANGED <<trucks, bins, depot, truck_routes_geometry, truck_maintenance_start,
                   since_auto_opt, urgent_bins_last_check, last_delta, tick_traffic, pc,
                   requests, faults, move_i, held_next_bin_id, last_event>>
    /\ maintenance_elapsed' = elapsed_after(0)
    /\ UNCHANGED services

\* a call of KnapsackSolver.solve_multiple_trucks
KnapsackSolveMultiple ==
    /\ knapsack = NoCall
    /\ \E truck_capacities \in TruckCapacityLists, items \in KnapsackItemLists :
          knapsack' = [op |-> "solve_multiple_trucks",
                       truck_capacities |-> truck_capacities, items |-> items,
                       results |-> solve_multiple_trucks(truck_capacities, items)]
    /\ UNCHANGED <<trucks, bins, depot, truck_routes_geometry, truck_maintenance_start,
                   since_auto_opt, urgent_bins_last_check, last_delta, tick_traffic, pc,
                   requests, faults, move_i, held_next_bin_id, last_event>>
    /\ maintenance_elapsed' = elapsed_after(0)
    /\ UNCHANGED services

KnapsackInit == Init /\ \A t \in Trucks : trucks[t].fuel_level = 100

KnapsackSpec == KnapsackInit /\ [][KnapsackSolve \/ KnapsackSolveMultiple]_vars

CapacityOf(truck_capacities, t) ==
    LET i == CHOOSE i \in 1..Len(truck_capacities) : truck_capacities[i].truck_id = t
    IN truck_capacities[i].capacity

\* C12: for every algorithm and for multi-truck allocation, the total true
\* weight of the items assigned to a truck never exceeds that truck's
\* available capacity, also when weights are not multiples of 0.1 kg.
AssignedWeightWithinCapacity ==
    /\ knapsack.op = "solve" =>
          TotalWeight(knapsack.items, knapsack.result.selected_ids) <= knapsack.capacity
    /\ knapsack.op = "solve_multiple_trucks" =>
          \A i \in 1..Len(knapsack.results) :
              TotalWeight(knapsack.items, knapsack.results[i].selected_ids)
                 <= CapacityOf(knapsack.truck_capacities, knapsack.results[i].truck_id)

\* ------------------------------------------------ full_reoptimize by itself
\* full_reoptimize called directly, up to MaxCalls times in a row with the
\* same truck list and bin list and no tick in between; the trucks may carry
\* a load, be under way or unavailable, and the bins are at any of three fill
\* levels
MaxCalls == 2
ReoptimizeLoadChoices(t) == {0, 60, TruckCapacity[t]}
ReoptimizeBinChoices ==
    {[fill_level |-> 60, status |-> "active"], [fill_level |-> 90, status |-> "active"],
     [fill_level |-> 100, status |-> "full"]}

ReoptimizeTruckStates ==
    {[status |-> "idle", fuel_level |-> 100, route |-> <<>>, current_route_index |-> 0],
     [status |-> "idle", fuel_level |-> 5, route |-> <<>>, current_route_index |-> 0],
     [status |-> "en_route", fuel_level |-> 100, route |-> <<"b1", "b2">>,
      current_route_index |-> 1],
     [status |-> "returning", fuel_level |-> 100, route |-> <<"b1">>,
      current_route_index |-> 1],
     [status |-> "maintenance", fuel_level |-> 100, route |-> <<>>,
      current_route_index |-> 0]}
ReoptimizeTrucks(t) ==
    {[status |-> st.status, location |-> DepotLocation, load |-> l,
      fuel_level |-> st.fuel_level, route |-> st.route,
      current_route_index |-> st.current_route_index] :
        st \in ReoptimizeTruckStates, l \in ReoptimizeLoadChoices(t)}

ReoptimizeInit ==
    /\ trucks \in {tr \in [Trucks -> UNION {ReoptimizeTrucks(t) : t \in Trucks}] :
                      \A t \in Trucks : tr[t] \in ReoptimizeTrucks(t)}
    /\ bins \in [BinIds -> ReoptimizeBinChoices]
    /\ depot = [current_load |-> 0, status |-> "active"]
    /\ truck_routes_geometry = [t \in Trucks |-> <<>>]
    /\ truck_maintenance_start = [t \in Trucks |-> NoStart]
    /\ since_auto_opt = 0
    /\ urgent_bins_last_check = {}
    /\ last_delta = 0
    /\ tick_traffic = 1
    /\ pc = "sleep"
    /\ requests = 0
    /\ faults = 0
    /\ move_i = 0
    /\ held_next_bin_id = NoBin
    /\ knapsack = NoCall
    /\ maintenance_elapsed = [t \in Trucks |-> NoStart]
    /\ ServicesInit
    /\ last_event = NoEvent

\* what the caller reads from the returned dict
Outcome(result) ==
    [success |-> result.success, message |-> result.message,
     bins_assigned |-> result.bins_assigned]

NoOutcome == [success |-> FALSE, message |-> "none", bins_assigned |-> 0]

FullReoptimizeCall ==
    /\ knapsack = NoCall
    /\ \E bin_list \in {<<>>, get_bins_needing_collection(bins), BinOrder, <<"b2", "b1">>},
          osrm_ok \in BOOLEAN :
          LET result == full_reoptimize(trucks, bins, TruckOrder, bin_list, osrm_ok)
          IN /\ trucks' = result.trucks
             /\ knapsack' = [op |-> "full_reoptimize", calls |-> 1, bin_list |-> bin_list,
                             previous |-> NoOutcome, outcome |-> Outcome(result),
                             osrm_ok |-> osrm_ok, before |-> trucks,
                             routes |-> result.routes]
    /\ UNCHANGED <<bins, depot, truck_routes_geometry, truck_maintenance_start,
                   since_auto_opt, urgent_bins_last_check, last_delta, tick_traffic, pc,
                   requests, faults, move_i, held_next_bin_id, last_event>>
    /\ maintenance_elapsed' = elapsed_after(0)
    /\ UNCHANGED services

FullReoptimizeAgain ==
    /\ knapsack.op = "full_reoptimize"
    /\ knapsack.calls < MaxCalls
    /\ \E osrm_ok \in BOOLEAN :
          LET result == full_reoptimize(trucks, bins, TruckOrder, knapsack.bin_list, osrm_ok)
          IN /\ trucks' = result.trucks
             /\ knapsack' = [knapsack EXCEPT !.calls = @ + 1, !.previous = knapsack.outcome,
                                             !.outcome = Outcome(result),
                                             !.osrm_ok = osrm_ok, !.before = trucks,
                                             !.routes = result.routes]
    /\ UNCHANGED <<bins, depot, truck_routes_geometry, truck_maintenance_start,
                   since_auto_opt, urgent_bins_last_check, last_delta, tick_traffic, pc,
                   requests, faults, move_i, held_next_bin_id, last_event>>
    /\ maintenance_elapsed' = elapsed_after(0)
    /\ UNCHANGED services

ReoptimizeSpec == ReoptimizeInit /\ [][FullReoptimizeCall \/ FullReoptimizeAgain]_vars

\* ------------------------------------------------ the TimeManager by itself
\* every variable of the engine, left alone when a service is called directly
engine_state == <<trucks, bins, depot, truck_routes_geometry, truck_maintenance_start,
                  since_auto_opt, urgent_bins_last_check, last_delta, tick_traffic, pc,
                  requests, faults, move_i, held_next_bin_id, knapsack,
                  maintenance_elapsed, last_event>>

WallUnitsPerMicrosecond == 2
MaxWall == 6
MaxWait == 3
MaxClockCalls == 4
SpeedChoices == {1, 3, 10}
FastForwardChoices == {-4, 5}
SetTimeChoices == {0, 2}

\* timedelta(seconds=...): a float duration becomes whole microseconds,
\* rounded half to even; x is in wall-clock units and not negative
timedelta_microseconds(x) ==
    LET q == x \div WallUnitsPerMicrosecond
        r == x % WallUnitsPerMicrosecond
    IN IF 2 * r < WallUnitsPerMicrosecond THEN q
       ELSE IF 2 * r > WallUnitsPerMicrosecond THEN q + 1
       ELSE IF q % 2 = 0 THEN q ELSE q + 1

\* a variant of now() that advances the clock also while paused
now_ignoring_pause(tm, wall) ==
    LET sim_time == tm.sim_time + timedelta_microseconds((wall - tm.real_last) * tm.speed)
    IN [tm |-> [tm EXCEPT !.real_last = wall, !.sim_time = sim_time,
                          !.last_delta = wall - tm.real_last],
        result |-> sim_time]

now(tm, wall) ==
    IF tm.is_paused THEN [tm |-> tm, result |-> tm.sim_time]
    ELSE LET real_delta == wall - tm.real_last
             sim_time == tm.sim_time + timedelta_microseconds(real_delta * tm.speed)
         IN [tm |-> [tm EXCEPT !.real_last = wall, !.sim_time = sim_time,
                               !.last_delta = real_delta],
             result |-> sim_time]

\* get_time_delta_seconds, in wall-clock units
get_time_delta(tm) == tm.last_delta * tm.speed

\* a variant of set_speed that keeps the wall-clock reference
set_speed_keeping_reference(tm, factor, wall) ==
    [tm EXCEPT !.speed = Max(1, Min(10, factor))]

set_speed(tm, factor, wall) ==
    LET speed == Max(1, Min(10, factor))
    IN [tm EXCEPT !.speed = speed,
                  !.real_last = IF tm.speed # speed /\ ~tm.is_paused THEN wall ELSE @]

pause(tm) == [tm EXCEPT !.is_paused = TRUE]

resume(tm, wall) ==
    IF tm.is_paused THEN [tm EXCEPT !.is_paused = FALSE, !.real_last = wall] ELSE tm

set_time(tm, new_time, wall) == [tm EXCEPT !.sim_time = new_time, !.real_last = wall]

fast_forward(tm, duration) == [tm EXCEPT !.sim_time = @ + duration]

\* the record of a call other than now()
Called(op, arg) ==
    [clock_call EXCEPT !.op = op, !.previous_op = clock_call.op, !.arg = arg,
                       !.at = perf_counter, !.calls = @ + 1]

\* wall-clock time passes
ClockWait ==
    /\ \E d \in 1..MaxWait :
          /\ perf_counter + d <= MaxWall
          /\ perf_counter' = perf_counter + d
    /\ UNCHANGED <<time_manager, clock_call, traffic_service, traffic_call, threshold_service, threshold_call,
                   collection_jobs, engine_state>>

ClockNow ==
    /\ clock_call.calls < MaxClockCalls
    /\ LET r == now(time_manager, perf_counter)
       IN /\ time_manager' = r.tm
          /\ clock_call' = [Called("now", 0) EXCEPT
                               !.advance = r.result - time_manager.sim_time,
                               !.previous_now = clock_call.last_now,
                               !.last_now = r.result,
                               !.previous_now_at = clock_call.now_at,
                               !.now_at = perf_counter,
                               !.set_time_between = FALSE,
                               !.now_calls_paused =
                                   IF time_manager.is_paused THEN @ + 1 ELSE 0]
    /\ UNCHANGED <<perf_counter, traffic_service, traffic_call, threshold_service, threshold_call,
                   collection_jobs, engine_state>>

ClockSetSpeed ==
    /\ clock_call.calls < MaxClockCalls
    /\ \E factor \in SpeedChoices :
          LET tm == set_speed(time_manager, factor, perf_counter)
              changed == tm.speed # time_manager.speed
          IN /\ time_manager' = tm
             /\ clock_call' = [Called("set_speed", factor) EXCEPT
                                  !.changed = changed,
                                  !.skipped = IF changed /\ ~time_manager.is_paused
                                              THEN perf_counter - time_manager.real_last
                                              ELSE 0]
    /\ UNCHANGED <<perf_counter, traffic_service, traffic_call, threshold_service, threshold_call,
                   collection_jobs, engine_state>>

ClockPause ==
    /\ clock_call.calls < MaxClockCalls
    /\ time_manager' = pause(time_manager)
    /\ clock_call' = [Called("pause", 0) EXCEPT
                         !.now_calls_paused = IF time_manager.is_paused THEN @ ELSE 0]
    /\ UNCHANGED <<perf_counter, traffic_service, traffic_call, threshold_service, threshold_call,
                   collection_jobs, engine_state>>

ClockResume ==
    /\ clock_call.calls < MaxClockCalls
    /\ time_manager' = resume(time_manager, perf_counter)
    /\ clock_call' = [Called("resume", 0) EXCEPT !.now_calls_paused = 0]
    /\ UNCHANGED <<perf_counter, traffic_service, traffic_call, threshold_service, threshold_call,
                   collection_jobs, engine_state>>

ClockSetTime ==
    /\ clock_call.calls < MaxClockCalls
    /\ \E new_time \in SetTimeChoices :
          /\ time_manager' = set_time(time_manager, new_time, perf_counter)
          /\ clock_call' = [Called("set_time", new_time) EXCEPT
                               !.set_time_between = TRUE, !.now_calls_paused = 0]
    /\ UNCHANGED <<perf_counter, traffic_service, traffic_call, threshold_service, threshold_call,
                   collection_jobs, engine_state>>

ClockFastForward ==
    /\ clock_call.calls < MaxClockCalls
    /\ \E duration \in FastForwardChoices :
          /\ time_manager' = fast_forward(time_manager, duration)
          /\ clock_call' = [Called("fast_forward", duration) EXCEPT !.now_calls_paused = 0]
    /\ UNCHANGED <<perf_counter, traffic_service, traffic_call, threshold_service, threshold_call,
                   collection_jobs, engine_state>>

ClockNext ==
    \/ ClockWait
    \/ ClockNow
    \/ ClockSetSpeed
    \/ ClockPause
    \/ ClockResume
    \/ ClockSetTime
    \/ ClockFastForward

ClockSpec == KnapsackInit /\ [][ClockNext]_vars

\* the step is a call of the named TimeManager method
CallStep(op) == clock_call'.calls = clock_call.calls + 1 /\ clock_call'.op = op

\* --------------------------------------------- the TrafficService by itself
MaxTrafficCalls == 3
MinMultiplier == 1000
MaxMultiplier == 2000
BaseMultiplier == 1000
NoiseAmplitude == 100
UpdateIntervalMinutes == 5
MinutesPerDay == 1440
\* instants of the week at which the service is called: Monday 03:00, 06:30,
\* 07:00, 07:30, 08:00, 09:00, 12:00, 17:00, 18:00, 21:00, 23:30 and
\* Saturday 08:00, 18:00
TrafficTimes ==
    {180, 390, 420, 450, 480, 540, 720, 1020, 1080, 1260, 1410,
     5 * MinutesPerDay + 480, 5 * MinutesPerDay + 1080}
ManualChoices == {500, 1000, 1500, 2000, 2500}
NoiseChoices == {-NoiseAmplitude, 0, NoiseAmplitude}
TrafficEventChoices ==
    {[start_time |-> 0, end_time |-> 7 * MinutesPerDay, multiplier_delta |-> d] :
        d \in {-500, 500, 2000}}

\* math.exp(-2 * x ** 2) in thousandths, for x in hundredths at the quarter
\* points of a rush window
gaussian(x) ==
    LET a == IF x < 0 THEN -x ELSE x
    IN CASE a = 0 -> 1000
         [] a = 25 -> 882
         [] a = 50 -> 607
         [] a = 75 -> 325
         [] OTHER -> 135

calculate_rush_intensity(current_time, start_time, end_time) ==
    gaussian(((current_time - start_time) * 200) \div (end_time - start_time) - 100)

\* _calculate_time_based_multiplier for the minute of the day and the day of
\* the week; evening_start and evening_end are assigned only inside the
\* morning branch, so evaluating the evening test when the morning test is
\* false raises UnboundLocalError and the later branches are never reached
calculate_time_based_multiplier(minute_of_day, day_of_week) ==
    LET weekend_factor == IF day_of_week >= 5 THEN 800 ELSE 1000
        morning_start == 7 * 60
        morning_end == 9 * 60
    IN IF morning_start <= minute_of_day /\ minute_of_day <= morning_end
       THEN [raised |-> FALSE,
             value |-> ((BaseMultiplier
                         + (600 * calculate_rush_intensity(minute_of_day, morning_start,
                                                           morning_end)) \div 1000)
                        * weekend_factor) \div 1000]
       ELSE [raised |-> TRUE, value |-> 0]

RECURSIVE SumDeltas(_)
SumDeltas(events) ==
    IF events = <<>> THEN 0 ELSE Head(events).multiplier_delta + SumDeltas(Tail(events))

\* _calculate_event_multiplier: expired events are dropped, active ones added up
live_events(ts, current_time) ==
    SelectSeq(ts.traffic_events, LAMBDA e : current_time < e.end_time)

calculate_event_multiplier(ts, current_time) ==
    SumDeltas(SelectSeq(live_events(ts, current_time),
                        LAMBDA e : e.start_time <= current_time /\ current_time <= e.end_time))

\* _update_auto_multiplier: the service afterwards, and whether it raised
update_auto_multiplier(ts, current_time, noise) ==
    IF current_time - ts.last_update_time < UpdateIntervalMinutes
    THEN [raised |-> FALSE, updated |-> FALSE, ts |-> ts]
    ELSE LET base == calculate_time_based_multiplier(current_time % MinutesPerDay,
                                                     (current_time \div MinutesPerDay) % 7)
             new_multiplier == base.value + noise + calculate_event_multiplier(ts, current_time)
         IN IF base.raised THEN [raised |-> TRUE, updated |-> FALSE, ts |-> ts]
            ELSE [raised |-> FALSE, updated |-> TRUE,
                  ts |-> [ts EXCEPT
                            !.traffic_events = live_events(ts, current_time),
                            !.current_auto_multiplier =
                                Max(MinMultiplier, Min(MaxMultiplier, new_multiplier)),
                            !.last_update_time = current_time]]

\* a variant of current_multiplier that updates and returns the automatic
\* value in every mode
current_multiplier_auto_only(ts, current_time, noise) ==
    LET u == update_auto_multiplier(ts, current_time, noise)
    IN [raised |-> u.raised, updated |-> u.updated, ts |-> u.ts,
        result |-> u.ts.current_auto_multiplier]

current_multiplier(ts, current_time, noise) ==
    IF ts.mode = "manual"
    THEN [raised |-> FALSE, updated |-> FALSE, ts |-> ts, result |-> ts.manual_mult]
    ELSE LET u == update_auto_multiplier(ts, current_time, noise)
         IN [raised |-> u.raised, updated |-> u.updated, ts |-> u.ts,
             result |-> u.ts.current_auto_multiplier]

set_manual(ts, multiplier) ==
    [ts EXCEPT !.mode = "manual",
               !.manual_mult = Max(MinMultiplier, Min(MaxMultiplier, multiplier))]

set_auto(ts) == [ts EXCEPT !.mode = "auto"]

\* the calls are made at instants of simulated time that do not go back
TrafficCurrentMultiplier ==
    /\ traffic_call.calls < MaxTrafficCalls
    /\ \E current_time \in TrafficTimes, noise \in NoiseChoices :
          LET r == current_multiplier(traffic_service, current_time, noise)
          IN /\ current_time >= traffic_call.at
             /\ traffic_service' = r.ts
             /\ traffic_call' = [traffic_call EXCEPT
                                    !.op = "current_multiplier", !.calls = @ + 1,
                                    !.at = current_time, !.raised = r.raised,
                                    !.updated = r.updated,
                                    !.result = IF r.raised THEN 0 ELSE r.result]
    /\ UNCHANGED <<time_manager, perf_counter, clock_call, threshold_service, threshold_call,
                   collection_jobs, engine_state>>

TrafficSetManual ==
    /\ traffic_call.calls < MaxTrafficCalls
    /\ \E multiplier \in ManualChoices :
          /\ traffic_service' = set_manual(traffic_service, multiplier)
          /\ traffic_call' = [traffic_call EXCEPT
                                 !.op = "set_manual", !.calls = @ + 1, !.raised = FALSE,
                                 !.manual_arg = multiplier, !.manual_at = traffic_call.at]
    /\ UNCHANGED <<time_manager, perf_counter, clock_call, threshold_service, threshold_call,
                   collection_jobs, engine_state>>

TrafficSetAuto ==
    /\ traffic_call.calls < MaxTrafficCalls
    /\ traffic_service' = set_auto(traffic_service)
    /\ traffic_call' = [traffic_call EXCEPT !.op = "set_auto", !.calls = @ + 1,
                                            !.raised = FALSE]
    /\ UNCHANGED <<time_manager, perf_counter, clock_call, threshold_service, threshold_call,
                   collection_jobs, engine_state>>

TrafficAddEvent ==
    /\ traffic_call.calls < MaxTrafficCalls
    /\ \E event \in TrafficEventChoices :
          traffic_service' = [traffic_service EXCEPT !.traffic_events = Append(@, event)]
    /\ traffic_call' = [traffic_call EXCEPT !.op = "add_traffic_event", !.calls = @ + 1,
                                            !.raised = FALSE]
    /\ UNCHANGED <<time_manager, perf_counter, clock_call, threshold_service, threshold_call,
                   collection_jobs, engine_state>>

TrafficNext ==
    \/ TrafficCurrentMultiplier
    \/ TrafficSetManual
    \/ TrafficSetAuto
    \/ TrafficAddEvent

TrafficSpec == KnapsackInit /\ [][TrafficNext]_vars

\* ------------------------------------------- the ThresholdService by itself
MaxThresholdCalls == 3
MinThreshold == 50000
MaxThreshold == 95000
BaseThreshold == 80000
EtaWeight == 30
TrafficWeight == 20
PriorityWeight == 10
FillRateWeight == 15
TimeWeight == 10
CapacityWeight == 15
MinEtaMinutes == 10
MaxEtaMinutes == 120
OffPeakBonus == 5000
SlowFillRate == 2
FastFillRate == 10
WasteTypes == {"general", "recyclable", "hazardous"}
\* the route from the depot to the bin: no depot location given, the route
\* query failing, or a duration in minutes
NoDepotLocation == -1
RouteFails == -2
EtaChoices == {NoDepotLocation, RouteFails, 65, 200}
ThresholdBins ==
    [type : WasteTypes, priority : {1, 3}, fill_rate : {1, 6, 12},
     capacity : {40, 100}]
\* hours of the wall clock (datetime.now()) and instants of simulated time
WallHours == {3, 8}
ThresholdTrafficTimes == {180, 480}
StaticThresholdChoices == {0, 100000}

\* an adjustment in thousandths times a weight in hundredths
weighted(adjustment, weight) ==
    IF adjustment >= 0 THEN (adjustment * weight) \div 100
    ELSE -(((-adjustment) * weight) \div 100)

\* round(threshold, 1) on a non-negative value in thousandths, ties to even
round_one_decimal(x) ==
    LET q == x \div 100
        r == x % 100
    IN 100 * (IF r > 50 \/ (r = 50 /\ q % 2 = 1) THEN q + 1 ELSE q)

\* the ETA adjustment for a route of eta minutes under the multiplier reading m
eta_adjustment(eta, ts, m) ==
    IF m.raised THEN [value |-> 0, ts |-> ts]
    ELSE [ts |-> m.ts,
          value |->
            IF eta * m.result <= MinEtaMinutes * 1000 THEN 10000
            ELSE IF eta * m.result >= MaxEtaMinutes * 1000 THEN -15000
            ELSE 10000 - (25 * (eta * m.result - MinEtaMinutes * 1000))
                            \div (MaxEtaMinutes - MinEtaMinutes)]

\* _calculate_eta_adjustment: its current_multiplier() call sits inside the
\* try block, so a failure there gives the neutral adjustment; the traffic
\* service it leaves behind is returned with the adjustment
calculate_eta_adjustment(eta, ts, current_time, noise) ==
    IF eta = NoDepotLocation \/ eta = RouteFails THEN [value |-> 0, ts |-> ts]
    ELSE eta_adjustment(eta, ts, current_multiplier(ts, current_time, noise))

\* the traffic adjustment for the multiplier reading m
traffic_adjustment(m) ==
    [raised |-> m.raised, ts |-> m.ts,
     value |-> IF m.raised THEN 0
               ELSE IF m.result <= 1100 THEN 5000
               ELSE IF m.result <= 1300 THEN 0
               ELSE IF m.result <= 1600 THEN -5000
               ELSE -10000]

\* _calculate_traffic_adjustment: the current_multiplier() call is unguarded
calculate_traffic_adjustment(ts, current_time, noise) ==
    traffic_adjustment(current_multiplier(ts, current_time, noise))

calculate_priority_adjustment(bin_obj) ==
    CASE bin_obj.priority = 1 -> 5000
      [] bin_obj.priority = 2 -> 0
      [] bin_obj.priority = 3 -> -10000
      [] OTHER -> 0

calculate_fill_rate_adjustment(bin_obj) ==
    IF bin_obj.fill_rate <= SlowFillRate THEN 8000
    ELSE IF bin_obj.fill_rate >= FastFillRate THEN -12000
    ELSE 8000 - (20000 * (bin_obj.fill_rate - SlowFillRate)) \div (FastFillRate - SlowFillRate)

calculate_time_adjustment(hour) ==
    IF (7 <= hour /\ hour < 9) \/ (17 <= hour /\ hour < 19) THEN -OffPeakBonus
    ELSE OffPeakBonus

calculate_capacity_adjustment(bin_obj) ==
    IF bin_obj.capacity >= 150 THEN 5000
    ELSE IF bin_obj.capacity <= 50 THEN -8000
    ELSE -8000 + (13000 * (bin_obj.capacity - 50)) \div (150 - 50)

\* the static threshold plus the six weighted adjustments, e and t being the
\* ETA and traffic adjustments
threshold_sum(svc, bin_obj, hour, e, t) ==
    [raised |-> t.raised, ts |-> t.ts,
     value |-> svc.static_thresholds[bin_obj.type]
               + weighted(e.value, EtaWeight)
               + weighted(t.value, TrafficWeight)
               + weighted(calculate_priority_adjustment(bin_obj), PriorityWeight)
               + weighted(calculate_fill_rate_adjustment(bin_obj), FillRateWeight)
               + weighted(calculate_time_adjustment(hour), TimeWeight)
               + weighted(calculate_capacity_adjustment(bin_obj), CapacityWeight)]

\* the traffic adjustment is computed on the traffic service the ETA
\* adjustment left behind
threshold_sum_after_eta(svc, bin_obj, hour, current_time, noise, e) ==
    threshold_sum(svc, bin_obj, hour, e, calculate_traffic_adjustment(e.ts, current_time, noise))

clamp_threshold(d) ==
    [raised |-> d.raised, ts |-> d.ts, unclamped |-> d.value,
     value |-> round_one_decimal(Max(MinThreshold, Min(MaxThreshold, d.value)))]

dynamic_threshold(svc, ts, bin_obj, eta, hour, current_time, noise) ==
    clamp_threshold(
        threshold_sum_after_eta(svc, bin_obj, hour, current_time, noise,
                                calculate_eta_adjustment(eta, ts, current_time, noise)))

\* threshold_for in either mode
threshold_for_in_mode(svc, ts, bin_obj, eta, hour, current_time, noise) ==
    IF svc.mode = "static"
    THEN [raised |-> FALSE, ts |-> ts, unclamped |-> svc.static_thresholds[bin_obj.type],
          value |-> svc.static_thresholds[bin_obj.type]]
    ELSE dynamic_threshold(svc, ts, bin_obj, eta, hour, current_time, noise)

\* what a threshold_for call that gave r leaves behind
ThresholdReturned(r) ==
    /\ traffic_service' = IF r.raised THEN traffic_service ELSE r.ts
    /\ threshold_call' = [op |-> "threshold_for",
                          calls |-> threshold_call.calls + 1,
                          raised |-> r.raised,
                          result |-> IF r.raised THEN 0 ELSE r.value,
                          unclamped |-> IF r.raised THEN 0 ELSE r.unclamped]

ThresholdFor ==
    /\ threshold_call.calls < MaxThresholdCalls
    /\ \E bin_obj \in ThresholdBins, eta \in EtaChoices, hour \in WallHours,
          current_time \in ThresholdTrafficTimes, noise \in NoiseChoices :
          /\ current_time >= traffic_service.last_update_time
          /\ ThresholdReturned(threshold_for_in_mode(threshold_service, traffic_service,
                                                     bin_obj, eta, hour, current_time, noise))
    /\ UNCHANGED <<time_manager, perf_counter, clock_call, traffic_call, threshold_service,
                   collection_jobs, engine_state>>

ThresholdSetMode ==
    /\ threshold_call.calls < MaxThresholdCalls
    /\ \E mode \in {"static", "dynamic"} :
          threshold_service' = [threshold_service EXCEPT !.mode = mode]
    /\ threshold_call' = [threshold_call EXCEPT !.op = "set_mode", !.calls = @ + 1,
                                                !.raised = FALSE]
    /\ UNCHANGED <<time_manager, perf_counter, clock_call, traffic_service, traffic_call,
                   collection_jobs, engine_state>>

\* set_static_threshold accepts any value from 0 to 100
ThresholdSetStatic ==
    /\ threshold_call.calls < MaxThresholdCalls
    /\ \E waste_type \in WasteTypes, threshold \in StaticThresholdChoices :
          threshold_service' =
              [threshold_service EXCEPT !.static_thresholds[waste_type] = threshold]
    /\ threshold_call' = [threshold_call EXCEPT !.op = "set_static_threshold",
                                                !.calls = @ + 1, !.raised = FALSE]
    /\ UNCHANGED <<time_manager, perf_counter, clock_call, traffic_service, traffic_call,
                   collection_jobs, engine_state>>

\* the traffic multiplier set by hand from the settings
ThresholdTrafficManual ==
    /\ threshold_call.calls < MaxThresholdCalls
    /\ \E multiplier \in ManualChoices :
          traffic_service' = set_manual(traffic_service, multiplier)
    /\ threshold_call' = [threshold_call EXCEPT !.op = "set_manual", !.calls = @ + 1,
                                                !.raised = FALSE]
    /\ UNCHANGED <<time_manager, perf_counter, clock_call, traffic_call, threshold_service,
                   collection_jobs, engine_state>>

ThresholdNext ==
    \/ ThresholdFor
    \/ ThresholdSetMode
    \/ ThresholdSetStatic
    \/ ThresholdTrafficManual

ThresholdSpec == KnapsackInit /\ [][ThresholdNext]_vars

\* ------------------------------------------------ the radar check by itself
MaxRadarChecks == 3
NineStops == [i \in 1..9 |-> IF i % 2 = 1 THEN "b1" ELSE "b2"]
RadarLoadChoices == {0, 90}
RadarFuelChoices == {5, 100}
RadarFillChoices == {60, 90}
RadarTruckChoices ==
    [status : {"idle"}, location : {DepotLocation}, load : RadarLoadChoices,
     fuel_level : RadarFuelChoices, route : {<<>>}, current_route_index : {0}]
    \cup [status : {"en_route"}, location : {DepotLocation}, load : RadarLoadChoices,
          fuel_level : RadarFuelChoices, route : {<<"b1", "b2">>, NineStops},
          current_route_index : {1}]

RadarInit ==
    /\ trucks \in [Trucks -> RadarTruckChoices]
    /\ bins \in [BinIds -> [fill_level : RadarFillChoices, status : {"active"}]]
    /\ depot = [current_load |-> 0, status |-> "active"]
    /\ truck_routes_geometry = [t \in Trucks |-> <<>>]
    /\ truck_maintenance_start = [t \in Trucks |-> NoStart]
    /\ since_auto_opt = 0
    /\ urgent_bins_last_check = {}
    /\ last_delta = 0
    /\ tick_traffic = 1
    /\ pc = "sleep"
    /\ requests = 0
    /\ faults = 0
    /\ move_i = 0
    /\ held_next_bin_id = NoBin
    /\ knapsack = NoCall
    /\ maintenance_elapsed = [t \in Trucks |-> NoStart]
    /\ ServicesInit
    /\ last_event = NoEvent

\* the fleet before the first insertion and after each insertion of a check
RECURSIVE InsertTrail(_, _)
InsertTrail(trs, urgent) ==
    IF urgent = <<>> THEN <<trs>>
    ELSE <<trs>> \o InsertTrail(try_incremental_insertion(trs, Head(urgent)), Tail(urgent))

\* _find_urgent_bins: the active bins at or above their threshold
find_urgent_bins(bns) ==
    SelectSeq(BinOrder, LAMBDA b : bns[b].status = "active"
                                   /\ bns[b].fill_level >= threshold_for(b))

\* maybe_reoptimize once the radar interval has elapsed
RadarCheck ==
    /\ knapsack = NoCall \/ (knapsack.op = "maybe_reoptimize" /\ knapsack.calls < MaxRadarChecks)
    /\ trucks' = InsertAll(trucks, find_urgent_bins(bins))
    /\ knapsack' = [op |-> "maybe_reoptimize",
                    calls |-> IF knapsack = NoCall THEN 1 ELSE knapsack.calls + 1,
                    urgent_previous |-> IF knapsack = NoCall THEN {} ELSE knapsack.urgent,
                    urgent |-> SeqToSet(find_urgent_bins(bins)),
                    attempted |-> find_urgent_bins(bins),
                    trail |-> InsertTrail(trucks, find_urgent_bins(bins))]
    /\ UNCHANGED <<bins, depot, truck_routes_geometry, truck_maintenance_start,
                   since_auto_opt, urgent_bins_last_check, last_delta, tick_traffic, pc,
                   requests, faults, move_i, held_next_bin_id, last_event>>
    /\ maintenance_elapsed' = elapsed_after(0)
    /\ UNCHANGED services

\* a bin fills up between two checks
RadarBinFills ==
    /\ \E b \in BinIds :
          /\ bins[b].fill_level < 90
          /\ bins' = [bins EXCEPT ![b].fill_level = 90]
    /\ UNCHANGED <<trucks, depot, truck_routes_geometry, truck_maintenance_start,
                   since_auto_opt, urgent_bins_last_check, last_delta, tick_traffic, pc,
                   requests, faults, move_i, held_next_bin_id, knapsack, last_event>>
    /\ maintenance_elapsed' = elapsed_after(0)
    /\ UNCHANGED services

RadarCheckSpec == RadarInit /\ [][RadarCheck \/ RadarBinFills]_vars

\* --------------------------------------------- schedule_collection by itself
\* The trigger times are computed in Python floats.  A float is held here as
\* a whole number of units of 2^-FractionBits hours, and every operation
\* rounds its result to ScheduleMantissaBits significant bits, ties to even
\* (a short mantissa in place of the 53 bits of a double).
MaxScheduleCalls == 2
ScheduleMantissaBits == 13
FractionBits == 15
OneHour == 2 ^ FractionBits
TimesPerDayChoices == {-1, 0, 1, 2, 3, 4}
FirstHourChoices == {0, 1, 8, 22}
LastHourChoices == {1, 2, 9, 18, 24}

RECURSIVE SigUlp(_)
SigUlp(x) == IF x < 2 ^ ScheduleMantissaBits THEN 1 ELSE 2 * SigUlp(x \div 2)

\* the float nearest to a / b, for a >= 0 and b > 0
float_of(a, b) ==
    LET d == b * SigUlp(a \div b)
        lo == a \div d
        r == a % d
    IN SigUlp(a \div b) * (IF 2 * r > d \/ (2 * r = d /\ lo % 2 = 1) THEN lo + 1 ELSE lo)

\* interval = working_duration / times_per_day
schedule_interval(times_per_day, first, last) == float_of((last - first) * OneHour, times_per_day)

\* collection_hour = first + (i * interval)
collection_hour(i, interval, first) == float_of(first * OneHour + float_of(i * interval, 1), 1)

\* hour = int(collection_hour); minute = int((collection_hour - hour) * 60);
\* an hour of 24 or more becomes 23:59
collection_job(i, ch) ==
    IF ch \div OneHour >= 24 THEN [job_id |-> i, hour |-> 23, minute |-> 59]
    ELSE [job_id |-> i, hour |-> ch \div OneHour,
          minute |-> float_of(float_of(ch - (ch \div OneHour) * OneHour, 1) * 60, 1)
                        \div OneHour]

\* the job store after schedule_collection: it is emptied first, then the
\* arguments are checked, then one cron job per run is added
schedule_collection(times_per_day, first, last) ==
    IF times_per_day <= 0 \/ first >= last THEN <<>>
    ELSE [k \in 1..times_per_day |->
            collection_job(k - 1,
                           collection_hour(k - 1,
                                           schedule_interval(times_per_day, first, last),
                                           first))]

ScheduleCollection ==
    /\ knapsack = NoCall \/ (knapsack.op = "schedule_collection"
                             /\ knapsack.calls < MaxScheduleCalls)
    /\ \E times_per_day \in TimesPerDayChoices, first \in FirstHourChoices,
          last \in LastHourChoices :
          /\ collection_jobs' = schedule_collection(times_per_day, first, last)
          /\ knapsack' = [op |-> "schedule_collection",
                          calls |-> IF knapsack = NoCall THEN 1 ELSE knapsack.calls + 1,
                          times_per_day |-> times_per_day, first |-> first, last |-> last,
                          before |-> collection_jobs]
    /\ UNCHANGED <<trucks, bins, depot, truck_routes_geometry, truck_maintenance_start,
                   since_auto_opt, urgent_bins_last_check, last_delta, tick_traffic, pc,
                   requests, faults, move_i, held_next_bin_id, maintenance_elapsed,
                   last_event>>
    /\ UNCHANGED <<time_manager, perf_counter, clock_call, traffic_service, traffic_call,
                   threshold_service, threshold_call>>

ScheduleSpec == KnapsackInit /\ [][ScheduleCollection]_vars

\* ------------------------------------------------- the traffic forecast
\* events that end at 08:00, at 10:00 and after the week
ForecastEventChoices ==
    {[start_time |-> 0, end_time |-> e, multiplier_delta |-> d] :
        e \in {480, 600, 7 * MinutesPerDay}, d \in {-500, 500}}
\* Monday 03:00, 07:00, 07:30 and 08:00
ForecastTimes == {180, 420, 450, 480}
HoursAheadChoices == {1, 2, 24}

\* get_traffic_forecast from hour_offset on: the service afterwards, the
\* entries appended so far and whether the loop raised
RECURSIVE forecast_from(_, _, _, _, _)
forecast_from(ts, current_time, hour_offset, hours_ahead, forecast) ==
    IF hour_offset >= hours_ahead THEN [raised |-> FALSE, ts |-> ts, forecast |-> forecast]
    ELSE LET future_time == current_time + 60 * hour_offset
             base_mult == calculate_time_based_multiplier(
                              future_time % MinutesPerDay,
                              (future_time \div MinutesPerDay) % 7)
             event_mult == calculate_event_multiplier(ts, future_time)
             total_mult == Max(MinMultiplier,
                               Min(MaxMultiplier, base_mult.value + event_mult))
         IN IF base_mult.raised THEN [raised |-> TRUE, ts |-> ts, forecast |-> forecast]
            ELSE forecast_from([ts EXCEPT !.traffic_events = live_events(ts, future_time)],
                               current_time, hour_offset + 1, hours_ahead,
                               Append(forecast, [time |-> future_time,
                                                 total_mult |-> total_mult]))

get_traffic_forecast(ts, current_time, hours_ahead) ==
    forecast_from(ts, current_time, 0, hours_ahead, <<>>)

ForecastAddEvent ==
    /\ traffic_call.calls < MaxTrafficCalls
    /\ \E event \in ForecastEventChoices :
          traffic_service' = [traffic_service EXCEPT !.traffic_events = Append(@, event)]
    /\ traffic_call' = [traffic_call EXCEPT !.op = "add_traffic_event", !.calls = @ + 1,
                                            !.raised = FALSE]
    /\ UNCHANGED <<time_manager, perf_counter, clock_call, threshold_service, threshold_call,
                   collection_jobs, engine_state>>

\* the calls are made at instants of simulated time that do not go back
TrafficForecast ==
    /\ traffic_call.calls < MaxTrafficCalls
    /\ \E current_time \in ForecastTimes, hours_ahead \in HoursAheadChoices :
          LET r == get_traffic_forecast(traffic_service, current_time, hours_ahead)
          IN /\ current_time >= traffic_call.at
             /\ traffic_service' = r.ts
             /\ traffic_call' = [traffic_call EXCEPT
                                    !.op = "get_traffic_forecast", !.calls = @ + 1,
                                    !.at = current_time, !.raised = r.raised,
                                    !.result = Len(r.forecast)]
    /\ UNCHANGED <<time_manager, perf_counter, clock_call, threshold_service, threshold_call,
                   collection_jobs, engine_state>>

ForecastSpec == KnapsackInit /\ [][ForecastAddEvent \/ TrafficForecast]_vars

\* ------------------------------------------------ the delta of one tick
\* The run loop reads the clock, then _step reads get_time_delta_minutes()
\* for the bins, for the depots and, after asking the traffic service for
\* its multiplier, for the trucks.  Request threads read the clock at any
\* moment and switch the traffic mode.  The speed stays 1 and the clock is
\* not paused; no traffic update falls due within the modelled instants.
NoDelta == NoInstant

\* run(): sim_now = self.time_manager.now()
DeltaTickRead ==
    /\ knapsack.op = "none" \/ (knapsack.op = "tick" /\ knapsack.phase = "sleep")
    /\ LET r == now(time_manager, perf_counter)
       IN /\ time_manager' = r.tm
          /\ knapsack' = [op |-> "tick", phase |-> "fill",
                          previous_read |-> IF knapsack.op = "tick" THEN knapsack.tick_read
                                            ELSE NoInstant,
                          tick_read |-> r.result,
                          fill_delta |-> NoDelta, depot_delta |-> NoDelta,
                          move_delta |-> NoDelta, mode |-> traffic_service.mode]
    /\ UNCHANGED <<trucks, bins, depot, truck_routes_geometry, truck_maintenance_start,
                   since_auto_opt, urgent_bins_last_check, last_delta, tick_traffic, pc,
                   requests, faults, move_i, held_next_bin_id, maintenance_elapsed, last_event,
                   perf_counter, clock_call, traffic_service, traffic_call,
                   threshold_service, threshold_call, collection_jobs>>

\* _update_bin_fill_levels, first statement
DeltaFill ==
    /\ knapsack.op = "tick" /\ knapsack.phase = "fill"
    /\ knapsack' = [knapsack EXCEPT !.fill_delta = get_time_delta(time_manager),
                                    !.phase = "depots"]
    /\ UNCHANGED <<trucks, bins, depot, truck_routes_geometry, truck_maintenance_start,
                   since_auto_opt, urgent_bins_last_check, last_delta, tick_traffic, pc,
                   requests, faults, move_i, held_next_bin_id, maintenance_elapsed, last_event,
                   services>>

\* _process_depots, first statement
DeltaDepots ==
    /\ knapsack.op = "tick" /\ knapsack.phase = "depots"
    /\ knapsack' = [knapsack EXCEPT !.depot_delta = get_time_delta(time_manager),
                                    !.phase = "move"]
    /\ UNCHANGED <<trucks, bins, depot, truck_routes_geometry, truck_maintenance_start,
                   since_auto_opt, urgent_bins_last_check, last_delta, tick_traffic, pc,
                   requests, faults, move_i, held_next_bin_id, maintenance_elapsed, last_event,
                   services>>

\* current_multiplier(): in auto mode _update_auto_multiplier reads the
\* clock through _get_current_sim_time
traffic_clock_read(tm, mode, wall) ==
    IF mode = "manual" THEN tm ELSE now(tm, wall).tm

\* _move_trucks_with_route_following, first two statements
DeltaMove ==
    /\ knapsack.op = "tick" /\ knapsack.phase = "move"
    /\ time_manager' = traffic_clock_read(time_manager, traffic_service.mode, perf_counter)
    /\ knapsack' = [knapsack EXCEPT !.move_delta = get_time_delta(time_manager'),
                                    !.mode = traffic_service.mode,
                                    !.phase = "sleep"]
    /\ UNCHANGED <<trucks, bins, depot, truck_routes_geometry, truck_maintenance_start,
                   since_auto_opt, urgent_bins_last_check, last_delta, tick_traffic, pc,
                   requests, faults, move_i, held_next_bin_id, maintenance_elapsed, last_event,
                   perf_counter, clock_call, traffic_service, traffic_call,
                   threshold_service, threshold_call, collection_jobs>>

\* a request thread reads the clock (GET /simulation/status and others)
DeltaApiNow ==
    /\ requests + faults < MaxDisturbances
    /\ requests' = requests + 1
    /\ time_manager' = now(time_manager, perf_counter).tm
    /\ UNCHANGED <<trucks, bins, depot, truck_routes_geometry, truck_maintenance_start,
                   since_auto_opt, urgent_bins_last_check, last_delta, tick_traffic, pc,
                   faults, move_i, held_next_bin_id, knapsack, maintenance_elapsed, last_event,
                   perf_counter, clock_call, traffic_service, traffic_call,
                   threshold_service, threshold_call, collection_jobs>>

\* a request thread switches the traffic service to manual mode
DeltaSetManual ==
    /\ requests + faults < MaxDisturbances
    /\ requests' = requests + 1
    /\ \E multiplier \in ManualChoices :
          traffic_service' = set_manual(traffic_service, multiplier)
    /\ UNCHANGED <<trucks, bins, depot, truck_routes_geometry, truck_maintenance_start,
                   since_auto_opt, urgent_bins_last_check, last_delta, tick_traffic, pc,
                   faults, move_i, held_next_bin_id, knapsack, maintenance_elapsed, last_event,
                   time_manager, perf_counter, clock_call, traffic_call,
                   threshold_service, threshold_call, collection_jobs>>

DeltaNext ==
    \/ ClockWait
    \/ DeltaTickRead
    \/ DeltaFill
    \/ DeltaDepots
    \/ DeltaMove
    \/ DeltaApiNow
    \/ DeltaSetManual

DeltaSpec == KnapsackInit /\ [][DeltaNext]_vars

\* ------------------------------------------- following the fallback route
\* The route query is unavailable.  One truck and one bin: t2 is offline,
\* the other bin is out of service, and full_reoptimize has assigned the
\* bin with the straight-line polyline depot -> bin -> depot stored.
FallbackFillChoices == {80, 85, 90}

FallbackInit ==
    \E target \in BinIds, f \in FallbackFillChoices :
        LET trs == [t \in Trucks |->
                      [status |-> IF t = "t1" THEN "idle" ELSE "offline",
                       location |-> DepotLocation, load |-> 0, fuel_level |-> 100,
                       route |-> <<>>, current_route_index |-> 0]]
            bns == [b \in BinIds |->
                      IF b = target THEN [fill_level |-> f, status |-> "active"]
                      ELSE [fill_level |-> 0, status |-> "maintenance"]]
            result == full_reoptimize(trs, bns, <<"t1">>,
                                      get_bins_needing_collection(bns), FALSE)
        IN /\ trucks = result.trucks
           /\ bins = bns
           /\ truck_routes_geometry = store_geometries([t \in Trucks |-> <<>>], result)
    /\ depot = [current_load |-> 0, status |-> "active"]
    /\ truck_maintenance_start = [t \in Trucks |-> NoStart]
    /\ since_auto_opt = 0
    /\ urgent_bins_last_check = {}
    /\ last_delta = 0
    /\ tick_traffic = 1
    /\ pc = "sleep"
    /\ requests = 0
    /\ faults = 0
    /\ move_i = 0
    /\ held_next_bin_id = NoBin
    /\ knapsack = NoCall
    /\ maintenance_elapsed = [t \in Trucks |-> NoStart]
    /\ ServicesInit
    /\ last_event = NoEvent

\* engine ticks with no breakdown and no command, every route query failing
FallbackNext ==
    \/ TickBegin
    \/ TickFill
    \/ TickDepots
    \/ TickMaintCompletion
    \/ TickTraffic
    \/ TickMoveTruck
    \/ TickMaintenanceWith({})
    \/ TickAutoOptWith({FALSE})

\* the engine thread keeps ticking
FallbackSpec == FallbackInit /\ [][FallbackNext]_vars /\ WF_vars(FallbackNext)

\* ------------------------------------------------- end-to-end collection
\* One truck and one bin: t2 is offline and b2 is out of service.  The bin
\* is at or above its threshold and below 100, and full_reoptimize has
\* assigned it, the geometries stored as the engine stores them.
EndToEndFillChoices == {75, 90}

EndToEndInit ==
    \E f \in EndToEndFillChoices, osrm_ok \in BOOLEAN :
        LET trs == [t \in Trucks |->
                      [status |-> IF t = "t1" THEN "idle" ELSE "offline",
                       location |-> DepotLocation, load |-> 0, fuel_level |-> 100,
                       route |-> <<>>, current_route_index |-> 0]]
            bns == [b \in BinIds |->
                      IF b = "b1" THEN [fill_level |-> f, status |-> "active"]
                      ELSE [fill_level |-> 0, status |-> "maintenance"]]
            result == full_reoptimize(trs, bns, <<"t1">>,
                                      get_bins_needing_collection(bns), osrm_ok)
        IN /\ trucks = result.trucks
           /\ bins = bns
           /\ truck_routes_geometry = store_geometries([t \in Trucks |-> <<>>], result)
    /\ depot = [current_load |-> 0, status |-> "active"]
    /\ truck_maintenance_start = [t \in Trucks |-> NoStart]
    /\ since_auto_opt = 0
    /\ urgent_bins_last_check = {}
    /\ last_delta = 0
    /\ tick_traffic = 1
    /\ pc = "sleep"
    /\ requests = 0
    /\ faults = 0
    /\ move_i = 0
    /\ held_next_bin_id = NoBin
    /\ knapsack = NoCall
    /\ maintenance_elapsed = [t \in Trucks |-> NoStart]
    /\ ServicesInit
    /\ last_event = NoEvent

\* engine ticks with no breakdown, no failing traffic query, the depot open
EndToEndNext ==
    \/ TickBegin
    \/ TickFill
    \/ TickDepots
    \/ TickMaintCompletion
    \/ TickTraffic
    \/ TickMoveTruckWith(TRUE)
    \/ TickMaintenanceWith({})
    \/ TickAutoOpt

EndToEndSpec == EndToEndInit /\ [][EndToEndNext]_vars /\ WF_vars(EndToEndNext)

BinEmptiedIntoTruck == bins["b1"].fill_level = 0 /\ trucks["t1"].load > 0

TruckHomeEmpty ==
    /\ trucks["t1"].status = "idle"
    /\ trucks["t1"].location = DepotLocation
    /\ trucks["t1"].load = 0

\* C1: from one idle truck at the depot and one active bin at or above its
\* threshold and below 100, once full_reoptimize has assigned the bin,
\* engine ticks without breakdown or command eventually reach a state where
\* the bin's fill level is 0 and the truck carries its load, and after that
\* a state where the truck is idle at the depot with load 0.
EndToEndCollection == <>(BinEmptiedIntoTruck /\ <>TruckHomeEmpty)

\* ---------------------------------------------------- truck status changes
StatusPairs ==
    {<<"idle", "en_route">>, <<"en_route", "collecting">>, <<"collecting", "en_route">>,
     <<"en_route", "returning">>, <<"returning", "idle">>,
     <<"idle", "maintenance">>, <<"maintenance", "idle">>,
     <<"idle", "offline">>, <<"offline", "idle">>}

\* the statement of C2 as written: only the edges of StatusPairs, and
\* en_route -> idle when the route is exhausted and the truck carries nothing
StatusEdgesAsStated ==
    [][\A t \in Trucks :
          trucks'[t].status # trucks[t].status =>
             \/ <<trucks[t].status, trucks'[t].status>> \in StatusPairs
             \/ /\ trucks[t].status = "en_route" /\ trucks'[t].status = "idle"
                /\ trucks'[t].current_route_index >= Len(trucks'[t].route)
                /\ trucks'[t].load = 0]_vars

\* C2: every truck status change is one of: into en_route from idle or
\* collecting; into collecting or returning from en_route; into maintenance
\* from any status; into idle from en_route, returning or maintenance by the
\* engine and from any status by a command; into offline by a command only.
StatusEdges ==
    [][\A t \in Trucks :
          LET old == trucks[t].status
              new == trucks'[t].status
          IN old # new =>
                \/ new = "en_route" /\ old \in {"idle", "collecting"}
                \/ new = "collecting" /\ old = "en_route"
                \/ new = "returning" /\ old = "en_route"
                \/ new = "maintenance"
                \/ new = "idle" /\ (EngineStep => old \in {"en_route", "returning",
                                                           "maintenance"})
                \/ new = "offline" /\ ~EngineStep]_vars

\* a truck that broke down on its way, with stops still ahead of it
BrokeDownOnTheWay ==
    \E t \in Trucks :
        /\ last_event = Event("truck_breakdown", t, NoBin, 0)
        /\ trucks[t].status = "maintenance"
        /\ trucks[t].location # DepotLocation
        /\ trucks[t].current_route_index < Len(trucks[t].route)

\* ------------------------------------------------------- reaching a bin
\* the movement step of truck id in which the en-route truck reaches its
\* next stop b
ReachesBin(id, b) ==
    /\ pc = "move" /\ move_i \in 1..Len(TruckOrder) /\ TruckOrder[move_i] = id
    /\ EngineStep
    /\ trucks[id].status = "en_route"
    /\ get_next_destination(trucks[id]) = b
    /\ trucks'[id].location = BinLocation[b]

\* C3: a full bin is collected on pickup: when a truck with enough remaining
\* capacity reaches a bin whose status is full, the bin's fill level becomes 0.
FullBinCollectedOnPickup ==
    [][\A id \in Trucks, b \in BinIds :
          (/\ ReachesBin(id, b)
           /\ bins[b].status = "full"
           /\ trucks[id].load + bin_load_of(b, bins[b]) <= TruckCapacity[id])
          => bins'[b].fill_level = 0]_vars

\* ------------------------------------------------------------- invariants
\* C4: for every truck, 0 <= load <= capacity.
LoadWithinCapacity ==
    \A t \in Trucks : 0 <= trucks[t].load /\ trucks[t].load <= TruckCapacity[t]

\* a loaded truck was refused a bin that does not fit any more
CollectionRefused ==
    \E t \in Trucks, b \in BinIds :
        /\ last_event = Event("collection_failed", t, b, 0)
        /\ trucks[t].load > 0
        /\ trucks[t].load + bin_load_of(b, bins[b]) > TruckCapacity[t]

\* C5: for every bin, 0 <= fill_level <= 100.
FillLevelInRange ==
    \A b \in BinIds : 0 <= bins[b].fill_level /\ bins[b].fill_level <= 100

\* one bin has overflowed at exactly 100 while the other was emptied into a truck
OverflowedAndCollected ==
    \E b, c \in BinIds :
        /\ bins[b].status = "full" /\ bins[b].fill_level = 100
        /\ last_event.type = "bin_collected" /\ last_event.bin_id = c
        /\ bins[c].fill_level = 0

\* C6: for every truck, 0 <= current_route_index <= length of the route.
CursorWithinRoute ==
    \A t \in Trucks :
        /\ 0 <= trucks[t].current_route_index
        /\ trucks[t].current_route_index <= Len(trucks[t].route)

\* a route the radar extended at its tail (no other operation repeats a
\* stop or puts b2 before b1), with the cursor past its first stop
CursorInsideExtendedRoute ==
    \E t \in Trucks :
        /\ trucks[t].route \in {<<"b2", "b1">>, <<"b1", "b1">>, <<"b2", "b2">>}
        /\ trucks[t].current_route_index >= 1

\* C7: the depot's stored load lies between 0 and its capacity.
DepotLoadWithinCapacity ==
    0 <= depot.current_load /\ depot.current_load <= DepotCapacity

\* a delivery was turned away because it would exceed the capacity
DeliveryRefused ==
    \E t \in Trucks :
        /\ last_event.type = "depot_full" /\ last_event.truck_id = t
        /\ depot.status = "active"
        /\ depot.current_load > 0
        /\ depot.current_load + trucks[t].load > DepotCapacity

\* ------------------------------------------------------ collecting a bin
\* what left bin b and what truck id gained in one step
AmountOutOfBin(b) == bin_load_of(b, bins[b]) - bin_load_of(b, bins'[b])
AmountIntoTruck(id) == trucks'[id].load - trucks[id].load
StopsAhead(t) == Len(t.route) - t.current_route_index

ArrivesAtDepot(id) ==
    /\ pc = "move" /\ move_i \in 1..Len(TruckOrder) /\ TruckOrder[move_i] = id
    /\ EngineStep
    /\ trucks[id].status = "returning"
    /\ trucks[id].load > 0
    /\ depot.status = "active"
    /\ move_towards(trucks[id], DepotLocation, last_delta, tick_traffic).reached

\* C9: when a returning truck arrives at an operational depot that accepts
\* its load, the truck's load becomes 0, the depot's stored load grows by
\* exactly the load the truck carried and the truck is idle at the depot;
\* a depot that does not accept (closed, or the load does not fit) leaves
\* both loads as they were.
EmptiedIntoDepot ==
    [][\A id \in Trucks :
          ArrivesAtDepot(id) =>
             \/ /\ last_event' = Event("truck_emptied_at_depot", id, NoBin, trucks[id].load)
                /\ depot.current_load + trucks[id].load <= DepotCapacity
                /\ trucks'[id].load = 0
                /\ depot'.current_load = depot.current_load + trucks[id].load
                /\ trucks'[id].status = "idle"
                /\ trucks'[id].location = DepotLocation
             \/ /\ last_event' = Event("depot_full", id, NoBin, trucks[id].load)
                /\ trucks'[id].load = trucks[id].load
                /\ trucks'[id].status = "returning"
                /\ depot' = depot]_vars

\* a truck has just emptied its load into a depot that already held some
DeliveredToDepot ==
    \E t \in Trucks :
        /\ last_event.type = "truck_emptied_at_depot" /\ last_event.truck_id = t
        /\ last_event.amount > 0
        /\ depot.current_load > last_event.amount
        /\ trucks[t].status = "idle" /\ trucks[t].load = 0
        /\ trucks[t].location = DepotLocation

\* C10: when a truck arrives at the depot and becomes idle, its route is
\* empty afterwards.
RouteClearedOnArrival ==
    [][\A id \in Trucks :
          (/\ pc = "move" /\ move_i \in 1..Len(TruckOrder) /\ TruckOrder[move_i] = id
           /\ EngineStep
           /\ trucks[id].status = "returning"
           /\ trucks'[id].status = "idle"
           /\ trucks'[id].location = DepotLocation)
          => trucks'[id].route = <<>>]_vars

\* ------------------------------------------------- C13
\* C13: multi-truck allocation serves the trucks in non-increasing order of
\* available capacity and takes each truck's selected items out of the pool
\* before the next truck, so no item is assigned to more than one truck.
LargestFirstDisjoint ==
    knapsack.op = "solve_multiple_trucks" =>
        LET results == knapsack.results
            caps == knapsack.truck_capacities
        IN /\ Len(results) = Len(caps)
           /\ \A i \in 1..Len(results) - 1 :
                 CapacityOf(caps, results[i].truck_id)
                    >= CapacityOf(caps, results[i + 1].truck_id)
           /\ \A i, j \in 1..Len(results) :
                 i # j => \A k \in 1..Len(results[i].selected_ids) :
                             ~InSeq(results[j].selected_ids, results[i].selected_ids[k])

\* the second list entry is the larger truck and is served first; both trucks
\* select something, and the truck served second had room for an item that
\* the first one took
SmallerTruckCouldHaveTakenIt ==
    /\ knapsack.op = "solve_multiple_trucks"
    /\ knapsack.truck_capacities[1].capacity < knapsack.truck_capacities[2].capacity
    /\ knapsack.results[1].truck_id = 2
    /\ knapsack.results[1].selected_ids # <<>>
    /\ knapsack.results[2].selected_ids # <<>>
    /\ \E k \in 1..Len(knapsack.items) :
          /\ InSeq(knapsack.results[1].selected_ids, knapsack.items[k].id)
          /\ knapsack.items[k].weight <= knapsack.truck_capacities[1].capacity


\* ------------------------------------------------- C14
\* C14: for the same capacity and the same items, the total value the greedy
\* mode reports is at most the total value the exact-DP mode reports.
GreedyValueAtMostDp ==
    knapsack.op = "solve" =>
        /\ knapsack.algorithm = "greedy" =>
              knapsack.result.total_value
                 <= solve_algorithm(knapsack.capacity, knapsack.items, "dp").total_value
        /\ knapsack.algorithm = "dp" =>
              solve_algorithm(knapsack.capacity, knapsack.items, "greedy").total_value
                 <= knapsack.result.total_value

\* ------------------------------------------------- C15
RECURSIVE SumOver(_, _, _)
SumOver(items, idx, field) ==
    IF idx = {} THEN 0
    ELSE LET k == CHOOSE k \in idx : TRUE
         IN (IF field = "weight" THEN items[k].weight ELSE items[k].value)
            + SumOver(items, idx \ {k}, field)

\* the largest exact total value of a subset of `items` whose true total
\* weight fits `capacity`
BestFittingValue(capacity, items) ==
    LET fitting == {idx \in SUBSET (1..Len(items)) : SumOver(items, idx, "weight") <= capacity}
    IN CHOOSE v \in {SumOver(items, idx, "value") : idx \in fitting} :
          \A idx \in fitting : SumOver(items, idx, "value") <= v

SelectedIndexes(items, ids) == {k \in 1..Len(items) : InSeq(ids, items[k].id)}

IsBestFitting(capacity, items, ids) ==
    /\ SumOver(items, SelectedIndexes(items, ids), "weight") <= capacity
    /\ SumOver(items, SelectedIndexes(items, ids), "value") = BestFittingValue(capacity, items)

\* the items still in the pool when the i-th truck of a multi-truck call is served
PoolBefore(results, items, i) ==
    SelectSeq(items, LAMBDA it : \A j \in 1..(i - 1) : ~InSeq(results[j].selected_ids, it.id))

\* C15: with at most 50 candidate items the selected subset has the maximum
\* total value among the subsets whose total weight fits the truck's
\* available capacity, for single-truck selection (algorithm auto) and for
\* each truck served in a multi-truck allocation.
SelectionIsOptimal ==
    /\ (knapsack.op = "solve" /\ knapsack.algorithm = "auto") =>
          IsBestFitting(knapsack.capacity, knapsack.items, knapsack.result.selected_ids)
    /\ knapsack.op = "solve_multiple_trucks" =>
          \A i \in 1..Len(knapsack.results) :
              IsBestFitting(CapacityOf(knapsack.truck_capacities, knapsack.results[i].truck_id),
                            PoolBefore(knapsack.results, knapsack.items, i),
                            knapsack.results[i].selected_ids)

\* ------------------------------------------------- C16
\* C16: when a non-empty candidate set yields no assignment, the allocator
\* returns something other than what it returns for an empty candidate set,
\* and full_reoptimize reports the outcome explicitly (a failure or a message)
\* rather than as a plain success.
NoSolutionIsExplicit ==
    /\ (/\ knapsack.op = "solve"
        /\ knapsack.items # <<>>
        /\ knapsack.result.selected_ids = <<>>) =>
          knapsack.result # solve_algorithm(knapsack.capacity, <<>>, knapsack.algorithm)
    /\ (/\ knapsack.op = "full_reoptimize"
        /\ knapsack.bin_list # <<>>
        /\ knapsack.outcome.bins_assigned = 0) =>
          (~knapsack.outcome.success \/ knapsack.outcome.message # "none")

\* ------------------------------------------------- C17
\* C17: full_reoptimize called twice in a row, with no tick in between and the
\* same trucks and bins, reports the same number of bins assigned both times.
SameBinsAssignedTwice ==
    (knapsack.op = "full_reoptimize" /\ knapsack.calls >= 2) =>
        knapsack.outcome.bins_assigned = knapsack.previous.bins_assigned

\* the second call came after a first one that put a truck en route
SecondCallAfterAssignment ==
    /\ knapsack.op = "full_reoptimize"
    /\ knapsack.calls >= 2
    /\ knapsack.previous.bins_assigned > 0
    /\ \E t \in Trucks : trucks[t].status = "en_route"

\* ------------------------------------------------- C18
\* C18: whenever the engine's automatic optimization or the scheduler trigger
\* resolves the bins needing collection, the resolved list contains every bin
\* at or above its threshold whose status is active or full.
ResolvedBinsIncludeFull ==
    [][((pc = "auto_opt" /\ pc' = "sleep") \/ last_event'.type = "scheduled_optimization") =>
          \A b \in BinIds :
              (bins[b].fill_level >= threshold_for(b) /\ bins[b].status \in {"active", "full"})
                 => InSeq(get_bins_needing_collection(bins), b)]_vars

\* ------------------------------------------------- C19
\* C19: the engine returns a truck from maintenance to idle only when at least
\* the maintenance duration of simulated time has passed since the truck
\* entered its current maintenance period.
AutoCompletionAfterDuration ==
    [][\A t \in Trucks :
          (/\ pc = "maint_completion" /\ pc' = "move"
           /\ trucks[t].status = "maintenance"
           /\ trucks'[t].status = "idle")
             => maintenance_elapsed[t] >= MaintenanceDuration]_vars

\* ------------------------------------------------- C20
\* C20: a depot that became full after a delivery still has its stored load
\* reduced by the processing step of a later tick within its operating hours.
FullDepotStillProcessed ==
    [][(/\ depot.status = "full"
        /\ depot.current_load > 0
        /\ last_delta > 0
        /\ TickDepotsWith(TRUE, TRUE))
          => depot'.current_load < depot.current_load]_vars

\* ------------------------------------------------- C21
\* C21: while the clock is paused, every now() call returns the same simulated
\* instant, however much wall-clock time passes, as long as no set_time,
\* fast_forward or resume is called.
FrozenWhilePaused ==
    [][(/\ time_manager.is_paused
        /\ ~CallStep("set_time") /\ ~CallStep("fast_forward") /\ ~CallStep("resume"))
          => /\ time_manager'.sim_time = time_manager.sim_time
             /\ CallStep("now") => clock_call'.last_now = time_manager.sim_time]_vars

\* two now() calls after the same pause(), with wall-clock time between them
TwoReadingsWhilePaused ==
    /\ time_manager.is_paused
    /\ clock_call.op = "now"
    /\ clock_call.now_calls_paused >= 2
    /\ clock_call.now_at > clock_call.previous_now_at
    /\ clock_call.last_now = clock_call.previous_now

\* ------------------------------------------------- C22
\* C22: as long as set_time is not called, successive now() calls never return
\* a smaller instant, whatever now, set_speed, pause, resume and fast_forward
\* calls are made in between.
NowNeverDecreases ==
    (clock_call.previous_now # NoInstant /\ ~clock_call.set_time_between)
        => clock_call.last_now >= clock_call.previous_now

\* ------------------------------------------------- C23
\* C23 as stated: the now() call that follows a set_speed(k) made while running
\* advances simulated time by exactly k times the wall-clock time since the
\* set_speed call.
SpeedChangeExact ==
    [][(/\ clock_call.op = "set_speed"
        /\ ~time_manager.is_paused
        /\ CallStep("now"))
          => WallUnitsPerMicrosecond * (time_manager'.sim_time - time_manager.sim_time)
                = time_manager.speed * (perf_counter - clock_call.at)]_vars

\* C23: the now() call that follows a set_speed(k) made while running advances
\* simulated time by k times the wall-clock time counted, to the nearest
\* microsecond; the time counted starts at the set_speed call when it changed
\* the speed (the wall-clock time before the change is dropped, not
\* multiplied), and at the previous reference when k was already the speed.
SpeedChangeToTheMicrosecond ==
    [][(/\ clock_call.op = "set_speed"
        /\ ~time_manager.is_paused
        /\ CallStep("now"))
          => LET counted == IF clock_call.changed
                            THEN perf_counter - clock_call.at
                            ELSE perf_counter - time_manager.real_last
                 advance == time_manager'.sim_time - time_manager.sim_time
                 error == WallUnitsPerMicrosecond * advance - time_manager.speed * counted
             IN 2 * error <= WallUnitsPerMicrosecond
                /\ -2 * error <= WallUnitsPerMicrosecond]_vars

\* now() after a speed change that came some wall-clock time after the
\* previous reading, with the clock running
ReadingAfterSpeedChange ==
    /\ clock_call.op = "now"
    /\ clock_call.previous_op = "set_speed"
    /\ clock_call.changed
    /\ clock_call.skipped > 0
    /\ clock_call.advance > 0
    /\ ~time_manager.is_paused

\* ------------------------------------------------- C24
\* C24: in manual mode, after set_manual(m) with m in [1.0, 2.0], every
\* current_multiplier() call returns exactly m, however much simulated time
\* has passed since.
ManualMultiplierReturned ==
    (/\ traffic_call.op = "current_multiplier"
     /\ traffic_service.mode = "manual"
     /\ traffic_call.manual_arg >= MinMultiplier
     /\ traffic_call.manual_arg <= MaxMultiplier)
        => ~traffic_call.raised /\ traffic_call.result = traffic_call.manual_arg

\* 1.5 set by hand and read back later than one update interval, at a time
\* outside the morning rush
ManualValueReadLater ==
    /\ traffic_call.op = "current_multiplier"
    /\ traffic_service.mode = "manual"
    /\ traffic_call.manual_arg = 1500
    /\ traffic_call.result = 1500
    /\ traffic_call.at >= traffic_call.manual_at + UpdateIntervalMinutes
    /\ traffic_call.at % MinutesPerDay > 9 * 60

\* ------------------------------------------------- C25
\* C25: in auto mode current_multiplier() returns a value within [1.0, 2.0]
\* at every simulated time of day and for any registered traffic events.
AutoMultiplierInRange ==
    (traffic_call.op = "current_multiplier" /\ traffic_service.mode = "auto")
        => /\ ~traffic_call.raised
           /\ traffic_call.result >= MinMultiplier
           /\ traffic_call.result <= MaxMultiplier

\* ------------------------------------------------- C26
\* C26: in dynamic mode threshold_for returns a value within
\* [min_threshold, max_threshold] for every bin and every combination of
\* adjustments.
DynamicThresholdInRange ==
    (threshold_call.op = "threshold_for" /\ threshold_service.mode = "dynamic")
        => /\ ~threshold_call.raised
           /\ threshold_call.result >= MinThreshold
           /\ threshold_call.result <= MaxThreshold

\* ------------------------------------------------- C27
\* C27: a radar check attempts incremental insertion only for bins that are
\* urgent now and were not urgent at the previous check.
OnlyNewlyUrgentInserted ==
    (knapsack # NoCall /\ knapsack.op = "maybe_reoptimize" /\ knapsack.calls >= 2)
        => \A i \in 1..Len(knapsack.attempted) :
              knapsack.attempted[i] \notin knapsack.urgent_previous

\* ------------------------------------------------- C28
\* the i-th insertion of the latest check: the bin, the fleet before and after
InsertionBin(i) == knapsack.attempted[i]
FleetBefore(i) == knapsack.trail[i]
FleetAfter(i) == knapsack.trail[i + 1]
HasRoom(i, t) == FleetBefore(i)[t].load + BinCapacity[InsertionBin(i)] <= TruckCapacity[t]
CanCollect(i, t) ==
    can_collect_bin(FleetBefore(i)[t], TruckCapacity[t], BinCapacity[InsertionBin(i)])
GivenSingleBinRoute(i, t) ==
    FleetAfter(i) = [FleetBefore(i) EXCEPT ![t] = [@ EXCEPT !.route = <<InsertionBin(i)>>,
                                                          !.current_route_index = 0,
                                                          !.status = "en_route"]]
AppendedAtTail(i, t) ==
    FleetAfter(i) = [FleetBefore(i) EXCEPT ![t].route = Append(@, InsertionBin(i))]
Insertions ==
    IF knapsack # NoCall /\ knapsack.op = "maybe_reoptimize"
    THEN 1..Len(knapsack.attempted) ELSE {}

\* C28 as stated: an idle truck with room for the bin gets it as a single-bin
\* route; otherwise the bin goes to the tail of an en-route truck with room
\* and fewer than 10 stops, nothing else of that truck changing; otherwise no
\* truck is modified.
InsertionByRoomAlone ==
    \A i \in Insertions :
        LET idle == {t \in Trucks : FleetBefore(i)[t].status = "idle" /\ HasRoom(i, t)}
            moving == {t \in Trucks : /\ FleetBefore(i)[t].status = "en_route"
                                      /\ HasRoom(i, t)
                                      /\ Len(FleetBefore(i)[t].route) < RadarRouteLimit}
        IN IF idle # {} THEN \E t \in idle : GivenSingleBinRoute(i, t)
           ELSE \/ FleetAfter(i) = FleetBefore(i)
                \/ \E t \in moving : AppendedAtTail(i, t)

\* C28, amended: the truck must also be available (not needing maintenance);
\* with that, the first idle truck that can collect the bin gets a single-bin
\* route, else the first en-route truck that can collect it and has fewer
\* than 10 stops gets the bin at the tail, else the fleet is unchanged.
InsertionByCanCollect ==
    \A i \in Insertions :
        LET idle == {t \in Trucks : FleetBefore(i)[t].status = "idle" /\ CanCollect(i, t)}
            moving == {t \in Trucks : /\ FleetBefore(i)[t].status = "en_route"
                                      /\ CanCollect(i, t)
                                      /\ Len(FleetBefore(i)[t].route) < RadarRouteLimit}
        IN IF idle # {} THEN \E t \in idle : GivenSingleBinRoute(i, t)
           ELSE IF moving # {} THEN \E t \in moving : AppendedAtTail(i, t)
           ELSE FleetAfter(i) = FleetBefore(i)

\* a bin appended behind the stops of a truck that is already past its first
\* stop, no idle truck being able to take it
AppendedBehindCursor ==
    \E i \in Insertions : \E t \in Trucks :
        /\ FleetBefore(i)[t].status = "en_route"
        /\ FleetBefore(i)[t].current_route_index > 0
        /\ AppendedAtTail(i, t)
        /\ FleetAfter(i)[t].route # FleetBefore(i)[t].route

\* ------------------------------------------------- C29
MaxRouteDistanceKm == 100
MaxRouteDurationMinutes == 240

\* the trucks that the latest full_reoptimize call gave a route
RoutedTrucks ==
    IF knapsack # NoCall /\ knapsack.op = "full_reoptimize"
    THEN {t \in Trucks : knapsack.routes[t] # NoRoute} ELSE {}

\* C29: every route that full_reoptimize assigns to a truck is at most
\* max_route_distance_km (100) long and takes at most
\* max_route_duration_minutes (240).
AssignedRoutesWithinLimits ==
    \A t \in RoutedTrucks :
        /\ trucks[t].route = knapsack.routes[t].optimized_bin_ids
        /\ RoadKm(RoadThrough(RouteCoordinates(trucks[t].route))) <= MaxRouteDistanceKm
        /\ RoadMinutes(RoadThrough(RouteCoordinates(trucks[t].route)))
              <= MaxRouteDurationMinutes

\* ------------------------------------------------- C30
\* whether s holds elements of list, each once, in the order of list
RECURSIVE InOrderOf(_, _)
InOrderOf(s, list) ==
    IF s = <<>> THEN TRUE
    ELSE IF list = <<>> THEN FALSE
    ELSE IF Head(s) = Head(list) THEN InOrderOf(Tail(s), Tail(list))
    ELSE InOrderOf(s, Tail(list))

\* C30: when the route query fails or is absent, sequencing still succeeds
\* with the allocated bins in their original order and the straight polyline
\* depot -> bins -> depot, and full_reoptimize assigns that route to the truck.
FallbackRouteAssigned ==
    (knapsack # NoCall /\ knapsack.op = "full_reoptimize" /\ ~knapsack.osrm_ok)
        => \A t \in RoutedTrucks :
              /\ knapsack.outcome.success
              /\ InOrderOf(knapsack.routes[t].optimized_bin_ids, knapsack.bin_list)
              /\ knapsack.routes[t].route_geometry
                    = RouteCoordinates(knapsack.routes[t].optimized_bin_ids)
              /\ trucks[t].route = knapsack.routes[t].optimized_bin_ids
              /\ trucks[t].status = "en_route"
              /\ trucks[t].current_route_index = 0

\* the route query failed and a truck was still sent to two bins, in the
\* order of the list it was given, along depot -> b2 -> b1 -> depot
FallbackRouteOfTwoBins ==
    /\ knapsack # NoCall /\ knapsack.op = "full_reoptimize" /\ ~knapsack.osrm_ok
    /\ knapsack.bin_list = <<"b2", "b1">>
    /\ \E t \in RoutedTrucks :
          /\ trucks[t].route = <<"b2", "b1">>
          /\ knapsack.routes[t].route_geometry
                = <<DepotLocation, BinLocation["b2"], BinLocation["b1"], DepotLocation>>
          /\ knapsack.before[t].status = "idle"

\* ------------------------------------------------- C31
\* the latest call was schedule_collection with valid arguments
ValidScheduleCall ==
    /\ knapsack # NoCall /\ knapsack.op = "schedule_collection"
    /\ knapsack.times_per_day > 0
    /\ knapsack.first < knapsack.last

\* minute of the day of first + i (last - first) / n hours, truncated
ExactTriggerMinute(i) ==
    (knapsack.first * 60 * knapsack.times_per_day
        + i * (knapsack.last - knapsack.first) * 60) \div knapsack.times_per_day

\* C31: for n > 0 and first < last, schedule_collection yields exactly n
\* trigger times, the i-th being first + i (last - first) / n hours truncated
\* to the minute, all within [first, last) and in non-decreasing order.
TriggerTimesExact ==
    ValidScheduleCall =>
        /\ Len(collection_jobs) = knapsack.times_per_day
        /\ \A k \in 1..Len(collection_jobs) :
              /\ collection_jobs[k].hour * 60 + collection_jobs[k].minute
                    = ExactTriggerMinute(k - 1)
              /\ collection_jobs[k].hour >= knapsack.first
              /\ collection_jobs[k].hour < knapsack.last
        /\ \A k \in 1..Len(collection_jobs) - 1 :
              collection_jobs[k].hour * 60 + collection_jobs[k].minute
                 <= collection_jobs[k + 1].hour * 60 + collection_jobs[k + 1].minute

\* ------------------------------------------------- C40
\* C40: schedule_collection called with times_per_day <= 0 or first >= last
\* schedules nothing and leaves the previously scheduled jobs unchanged.
InvalidCallLeavesJobs ==
    (/\ knapsack # NoCall /\ knapsack.op = "schedule_collection"
     /\ (knapsack.times_per_day <= 0 \/ knapsack.first >= knapsack.last))
        => collection_jobs = knapsack.before

\* ------------------------------------------------- C32
\* the step takes a collected bin off the truck's route
CollectedStep(t) ==
    /\ trucks'[t].status = "collecting"
    /\ \E b \in BinIds : trucks'[t].route = RemoveFirst(trucks[t].route, b)

RouteReplaced(t) == trucks'[t].route # trucks[t].route /\ ~CollectedStep(t)

ArrivedAtDepot(t) ==
    /\ trucks[t].status = "returning"
    /\ trucks'[t].status = "idle"
    /\ trucks'[t].location = DepotLocation

\* C32: whenever a truck arrives at the depot or its route is replaced or
\* cleared, its route-geometry entry is removed, or replaced by the geometry
\* of the route it now has.
GeometryKeptCurrent ==
    [][\A t \in Trucks :
          (RouteReplaced(t) \/ ArrivedAtDepot(t))
             => \/ truck_routes_geometry'[t] = <<>>
                \/ /\ trucks'[t].route # <<>>
                   /\ truck_routes_geometry'[t]
                         \in {RoadThrough(RouteCoordinates(trucks'[t].route)),
                              RouteCoordinates(trucks'[t].route)}]_vars

\* ------------------------------------------------- C33
\* C33: full_reoptimize changes the route, cursor and status only of trucks
\* that are available (idle or en_route with fuel at least 10) and receive at
\* least one bin; each of them ends en_route with cursor 0 and its allocated
\* bins as route; every other truck is unchanged.
OnlyRoutedTrucksChange ==
    (knapsack # NoCall /\ knapsack.op = "full_reoptimize")
        => \A t \in Trucks :
              IF t \in RoutedTrucks
              THEN /\ knapsack.before[t].status \in {"idle", "en_route"}
                   /\ knapsack.before[t].fuel_level >= LowFuel
                   /\ knapsack.routes[t].optimized_bin_ids # <<>>
                   /\ trucks[t] = [knapsack.before[t] EXCEPT
                                      !.route = knapsack.routes[t].optimized_bin_ids,
                                      !.current_route_index = 0,
                                      !.status = "en_route"]
              ELSE trucks[t] = knapsack.before[t]

\* one truck under way is given a new route while the other, returning with a
\* route and a cursor of its own, is passed over although bins are left
RoutedBesideReturningTruck ==
    /\ knapsack # NoCall /\ knapsack.op = "full_reoptimize" /\ knapsack.calls = 1
    /\ \E t, o \in Trucks :
          /\ t \in RoutedTrucks
          /\ knapsack.before[t].status = "en_route"
          /\ knapsack.before[t].current_route_index = 1
          /\ trucks[t].current_route_index = 0
          /\ o \notin RoutedTrucks
          /\ knapsack.before[o].status = "returning"
          /\ knapsack.before[o].load = 0
          /\ trucks[o].route = <<"b1">>
          /\ knapsack.outcome.bins_assigned = 1
          /\ Len(knapsack.bin_list) = 2

\* the one bin in service, which full_reoptimize assigned to t1
FallbackTarget == CHOOSE b \in BinIds : bins[b].status # "maintenance"

TruckAtFallbackTarget ==
    Distance(trucks["t1"].location, BinLocation[FallbackTarget]) < RoutePrecision

\* C34: with the route query unavailable and the straight-line polyline
\* depot -> bin -> depot stored, the en-route truck following it comes
\* within the arrival precision of its next bin after finitely many ticks,
\* whatever the distance between the depot and the bin.
FallbackFollowerArrives == <>TruckAtFallbackTarget

Distinct(route) == \A i, j \in 1..Len(route) : route[i] = route[j] => i = j

\* the movement step of an en-route truck whose next stop is not the last
\* stop of a route of two or more distinct bins
BeforeLastStop(t) ==
    /\ pc = "move" /\ move_i \in 1..Len(TruckOrder) /\ TruckOrder[move_i] = t
    /\ move_i' # move_i
    /\ trucks[t].status = "en_route"
    /\ Len(trucks[t].route) >= 2 /\ Distinct(trucks[t].route)
    /\ trucks[t].current_route_index + 1 < Len(trucks[t].route)

\* C35: a truck on a route of two or more distinct bins, with no
\* reassignment, breakdown or capacity shortfall, attempts collection at
\* every bin in route order before it becomes returning or idle: the
\* movement step at a stop that is not the last never ends the trip.
EveryStopBeforeReturning ==
    [][\A t \in Trucks :
          BeforeLastStop(t) /\ last_event'.type # "collection_failed"
             => trucks'[t].status \notin {"returning", "idle"}]_vars

\* the stops of a truck's route at or after its cursor
UnvisitedStops(t) ==
    {trucks[t].route[i] : i \in (trucks[t].current_route_index + 1)..Len(trucks[t].route)}

\* C36: across ticks and automatic full re-optimizations, no bin is among
\* the unvisited stops of more than one truck's route.
NoSharedUnvisitedStop ==
    \A t, u \in Trucks : t # u => UnvisitedStops(t) \cap UnvisitedStops(u) = {}

\* the movement step of truck t
MovementStepOf(t) ==
    /\ pc = "move" /\ move_i \in 1..Len(TruckOrder) /\ TruckOrder[move_i] = t
    /\ move_i' # move_i

RouteExhausted(t) == trucks[t].current_route_index = Len(trucks[t].route)

\* C37: an idle truck whose cursor equals its route length stays idle in
\* its movement step (no new route having been assigned), and that step
\* emits no truck_started_route event.
IdleTruckStaysIdle ==
    [][\A t \in Trucks :
          MovementStepOf(t) /\ trucks[t].status = "idle" /\ RouteExhausted(t)
             => /\ trucks'[t].status = "idle"
                /\ last_event'.type # "truck_started_route"]_vars

\* the clock's advance from the previous tick's read to this tick's read,
\* in microseconds
TickAdvance == knapsack.tick_read - knapsack.previous_read

\* a duration in wall-clock units equal to one in microseconds, up to the
\* rounding of timedelta
SameDuration(wall_units, microseconds) ==
    Abs(wall_units - microseconds * WallUnitsPerMicrosecond) < WallUnitsPerMicrosecond

DeltaRead(d) == d # NoDelta => SameDuration(d, TickAdvance)

\* C38: in every tick after the first, the delta used for the bins, for the
\* depots and for the trucks equals the simulated time between the previous
\* tick's clock read and this tick's, whatever other now() calls the
\* traffic model or request threads made in between.
TickDeltaIsClockAdvance ==
    (knapsack.op = "tick" /\ knapsack.previous_read # NoInstant)
        => /\ DeltaRead(knapsack.fill_delta)
           /\ DeltaRead(knapsack.depot_delta)
           /\ DeltaRead(knapsack.move_delta)

ForecastCalled ==
    traffic_call'.calls # traffic_call.calls /\ traffic_call'.op = "get_traffic_forecast"

\* C39: get_traffic_forecast leaves the traffic service as it was: every
\* event that has not expired at the current simulated time is still
\* registered after the call.
ForecastKeepsLiveEvents ==
    [][ForecastCalled =>
          \A i \in 1..Len(traffic_service.traffic_events) :
              traffic_call'.at < traffic_service.traffic_events[i].end_time
                 => InSeq(traffic_service'.traffic_events,
                          traffic_service.traffic_events[i])]_vars


====
